---- MODULE Spec2Model ----
(***************************************************************************)
(* Proactive-message scheduling and policy engine of the chat bot:        *)
(* bot/policy.py, bot/utils.py (pure time and quiet-window functions),    *)
(* bot/db.py (plan store), bot/main.py (conversational turn and plan      *)
(* application) and bot/scheduler.py (due-plan execution loop).           *)
(*                                                                         *)
(* Instants are integer seconds (UTC timestamps).  A datetime is an        *)
(* instant together with the UTC offset of the zone it is written in; the *)
(* configured zone has a fixed offset (no DST change).                    *)
(***************************************************************************)
EXTENDS Integers, Sequences, FiniteSets, TLC

VARIABLES
    clock,      \* the wall clock, a UTC timestamp (utc_now)
    convs,      \* table conversations: chat_id -> row
    plans,      \* table plans: the rows in id order (id = index)
    lock,       \* BotDB._lock: 0 when free, else the thread holding it
    txn,        \* the plans table as last committed, while a transaction is open
    turn,       \* request worker -> the locals of its wechat_event call
    tick,       \* the locals of the scheduler job process_due_plans
    started,    \* number of inbound events accepted so far
    lastOp,     \* the call made by the last step (history)
    polIn,      \* policy functions: the inputs [cand, now, blocks]
    polOut      \* policy functions: the last call and its result

polVars == <<polIn, polOut>>
sysVars == <<clock, convs, plans, lock, txn, turn, tick, started, lastOp>>
vars == <<clock, convs, plans, lock, txn, turn, tick, started, lastOp, polIn, polOut>>

----------------------------------------------------------------------------
(* Time units and datetimes *)

Hour == 60 * 60
Day == 24 * Hour

\* policy.py:23  MIN_SCHEDULE_DELAY = timedelta(seconds=60)
MIN_SCHEDULE_DELAY == 60

\* policy.py:53  for _ in range(5)
MaxPasses == 5

\* An aware datetime: the instant (UTC timestamp) and the UTC offset of the
\* zone it is written in.  Its wall clock is the instant plus the offset.
Dt(utc, off) == [utc |-> utc, off |-> off]
Wall(dt) == dt.utc + dt.off

\* datetime.timetz().replace(tzinfo=None): the time of day on the wall clock
\* of the datetime's own zone
TimeOfDay(dt) == Wall(dt) % Day

\* datetime.date(): the calendar day on the wall clock of the datetime's zone
DateOf(dt) == Wall(dt) \div Day

\* candidate.replace(hour=end.hour, minute=end.minute, second=0, microsecond=0):
\* same calendar day and zone, the hour and minute of `end`, seconds dropped
ReplaceHourMinute(dt, end) ==
    Dt(DateOf(dt) * Day + (end \div 60) * 60 - dt.off, dt.off)

\* candidate + timedelta(days=1)
PlusOneDay(dt) == Dt(dt.utc + Day, dt.off)

\* datetime.astimezone(tz): the same instant written in another zone
astimezone(dt, off) == Dt(dt.utc, off)

----------------------------------------------------------------------------
(* bot/policy.py and bot/utils.py *)

\* One pass of the loop body of is_within_quiet_hours for one block
BlockContains_EndInclusive(local_time, block) ==
    IF block.start <= block.end
    THEN block.start <= local_time /\ local_time <= block.end
    ELSE local_time >= block.start \/ local_time < block.end

BlockContains(local_time, block) ==
    IF block.start <= block.end
    THEN block.start <= local_time /\ local_time < block.end
    ELSE local_time >= block.start \/ local_time < block.end

\* for block in blocks: ... return True; return False
RECURSIVE WithinFrom(_, _, _)
WithinFrom(local_time, blocks, i) ==
    IF i > Len(blocks) THEN FALSE
    ELSE IF BlockContains(local_time, blocks[i]) THEN TRUE
    ELSE WithinFrom(local_time, blocks, i + 1)

is_within_quiet_hours(local_dt, blocks) ==
    WithinFrom(TimeOfDay(local_dt), blocks, 1)

\* The first block of the list that moves the candidate (0: none): the inner
\* for loop of next_allowed_time breaks at the first block that matches.
RECURSIVE FirstMatch(_, _, _)
FirstMatch(local_time, blocks, i) ==
    IF i > Len(blocks) THEN 0
    ELSE IF BlockContains(local_time, blocks[i]) THEN i
    ELSE FirstMatch(local_time, blocks, i + 1)

\* The candidate after the matching block moved it
MovePast(candidate, block) ==
    IF block.start <= block.end
    THEN ReplaceHourMinute(candidate, block.end)
    ELSE IF TimeOfDay(candidate) >= block.start
         THEN ReplaceHourMinute(PlusOneDay(candidate), block.end)
         ELSE ReplaceHourMinute(candidate, block.end)

\* for _ in range(5): moved = False; ...; if not moved: break
\* The result carries the number of passes that moved the candidate.
RECURSIVE NextAllowedLoop(_, _, _, _)
NextAllowedLoop(candidate, blocks, passes, moves) ==
    IF passes = 0 THEN [candidate |-> candidate, moves |-> moves]
    ELSE LET m == FirstMatch(TimeOfDay(candidate), blocks, 1) IN
         IF m = 0 THEN [candidate |-> candidate, moves |-> moves]
         ELSE NextAllowedLoop(MovePast(candidate, blocks[m]), blocks,
                              passes - 1, moves + 1)

next_allowed_time(local_dt, blocks) ==
    NextAllowedLoop(local_dt, blocks, MaxPasses, 0).candidate

\* bot/utils.py ensure_min_delay: aware datetimes compare by their instants
ensure_min_delay(dt, base, min_delay) ==
    IF dt.utc < base.utc + min_delay THEN Dt(base.utc + min_delay, base.off) ELSE dt

sanitize_schedule_time(send_at, local_now_dt, blocks) ==
    LET delayed == ensure_min_delay(send_at, local_now_dt, MIN_SCHEDULE_DELAY) IN
    IF is_within_quiet_hours(delayed, blocks)
    THEN next_allowed_time(delayed, blocks)
    ELSE delayed

----------------------------------------------------------------------------
(* bot/config.py: the configuration the process was started with *)

\* Settings as loaded from config.yaml: proactive messages enabled (default
\* off), at most one pending plan per chat (default 2), quiet hours
\* 22:00-07:00 in a zone 8 hours east of UTC; the other values are the
\* defaults of ProactiveConfig and GroupConfig.  min_confidence and the
\* confidence of an item are in tenths.
settings ==
    [ tz_offset_hours |-> 8,
      proactive |-> [ enabled |-> TRUE,
                      max_per_day |-> 1,
                      cooldown_hours |-> 6,
                      min_confidence |-> 6,
                      max_pending_per_chat |-> 1 ],
      groups |-> [ allow_proactive |-> FALSE,
                   reply_only_when_mentioned |-> TRUE ],
      quiet_hours |-> << [start |-> 22 * Hour, end |-> 7 * Hour] >> ]

\* The settings of the run: those of config.yaml, or, for a run drawn with
\* quiet hours of its own (quiet_hours: [] is the default of Settings), the
\* same with the quiet hours of the run
RunSettings ==
    IF "quiet_hours" \in DOMAIN polIn
    THEN [settings EXCEPT !.quiet_hours = polIn.quiet_hours]
    ELSE settings

\* build_quiet_blocks(settings)
build_quiet_blocks(s) == s.quiet_hours

\* The UTC offset of settings.timezone (a zone without DST changes)
TzOffset == settings.tz_offset_hours * Hour

\* local_now(tz) at the instant utc: datetime.now(ZoneInfo(tz_name))
local_now(utc) == Dt(utc, TzOffset)

\* The local calendar date of the present instant
Today == DateOf(local_now(clock))

\* int(dt.astimezone(timezone.utc).timestamp())
to_utc_ts(dt) == dt.utc

\* parse_send_at: None (the empty tuple) when the string is no ISO datetime;
\* a string without offset is taken as wall-clock time of tz_name; a string
\* with an offset (or Z) keeps its own offset
NoneDt == << >>
parse_send_at(raw, tz_off) ==
    IF raw.kind = "garbage" THEN NoneDt
    ELSE IF raw.kind = "naive" THEN <<Dt(raw.wall - tz_off, tz_off)>>
    ELSE <<Dt(raw.wall - raw.off, raw.off)>>

should_schedule_proactive_GroupsAsDirect(s, chat_type) ==
    s.proactive.enabled

should_schedule_proactive(s, chat_type) ==
    IF ~s.proactive.enabled THEN FALSE
    ELSE IF chat_type = "group" /\ ~s.groups.allow_proactive THEN FALSE
    ELSE TRUE

should_reply_in_group(is_mention, s) ==
    IF ~s.groups.reply_only_when_mentioned THEN TRUE ELSE is_mention

can_use_plan_AnyConfidence(item, s) == item.confidence >= 0

can_use_plan(item, s) == item.confidence >= s.proactive.min_confidence

----------------------------------------------------------------------------
(* bot/db.py: the statements of BotDB on the tables *)

NoDate == 0 - 2     \* daily_date IS NULL (below the local dates of every run)
NoTs == 0           \* last_bot_ts_utc IS NULL (None and 0 are both falsy)

Terminal == {"sent", "canceled"}

\* INSERT INTO conversations (chat_id, chat_type, summary, daily_count)
NewConversation(chat_type) ==
    [exists |-> TRUE, chat_type |-> chat_type, last_bot_ts_utc |-> NoTs,
     daily_count |-> 0, daily_date |-> NoDate]

NoConversation ==
    [exists |-> FALSE, chat_type |-> "direct", last_bot_ts_utc |-> NoTs,
     daily_count |-> 0, daily_date |-> NoDate]

\* ConversationState as get_conversation returns it
ConversationState(row) ==
    [chat_type |-> row.chat_type, last_bot_ts_utc |-> row.last_bot_ts_utc,
     daily_count |-> row.daily_count, daily_date |-> row.daily_date]

\* UPDATE conversations SET daily_count = ?, daily_date = ? WHERE chat_id = ?
update_daily_counter(C, chat_id, daily_count, daily_date) ==
    [C EXCEPT ![chat_id].daily_count = daily_count,
              ![chat_id].daily_date = daily_date]

\* UPDATE conversations SET last_bot_ts_utc = ? WHERE chat_id = ?
update_last_bot_ts(C, chat_id, ts_utc) ==
    [C EXCEPT ![chat_id].last_bot_ts_utc = ts_utc]

\* The ids of the rows WHERE chat_id = ? AND status = 'pending'
PendingIds(P, chat_id) ==
    {i \in DOMAIN P : P[i].chat_id = chat_id /\ P[i].status = "pending"}

\* ORDER BY send_at_utc ASC (rows of equal send time in id order): the place
\* of a row is the number of rows before it, counted once for every row
OrderBySendAt(P, ids) ==
    LET before(i) == {j \in ids : \/ P[j].send_at_utc < P[i].send_at_utc
                                  \/ (P[j].send_at_utc = P[i].send_at_utc /\ j < i)}
        InOrder(rows, place) ==
            [k \in 1..Cardinality(rows) |-> CHOOSE i \in rows : place[i] = k - 1]
    IN CHOOSE order \in {InOrder(rows, [i \in rows |-> Cardinality(before(i))]) :
                            rows \in {ids}} : TRUE

Prefix(seq, n) == IF Len(seq) <= n THEN seq ELSE SubSeq(seq, 1, n)

get_pending_plans(P, chat_id) == OrderBySendAt(P, PendingIds(P, chat_id))

count_pending_plans(P, chat_id) == Cardinality(PendingIds(P, chat_id))

\* db.py:289  limit: int = 50
DueLimit == 50

\* WHERE status = 'pending' AND send_at_utc <= ? ORDER BY send_at_utc ASC LIMIT ?
get_due_plans_Before(P, now_utc, limit) ==
    Prefix(OrderBySendAt(P, {i \in DOMAIN P : /\ P[i].status = "pending"
                                              /\ P[i].send_at_utc < now_utc}),
           limit)

get_due_plans(P, now_utc, limit) ==
    Prefix(OrderBySendAt(P, {i \in DOMAIN P : /\ P[i].status = "pending"
                                              /\ P[i].send_at_utc <= now_utc}),
           limit)

\* UPDATE plans SET status = 'canceled' WHERE chat_id = ? AND status = 'pending'
cancel_all_plans_KeepPending(P, chat_id) == P

cancel_all_plans_AllChats(P, chat_id) ==
    [i \in DOMAIN P |->
        IF P[i].status = "pending" THEN [P[i] EXCEPT !.status = "canceled"] ELSE P[i]]

cancel_all_plans(P, chat_id) ==
    [i \in DOMAIN P |->
        IF P[i].chat_id = chat_id /\ P[i].status = "pending"
        THEN [P[i] EXCEPT !.status = "canceled"]
        ELSE P[i]]

\* replace_plans, lines 321-328: the same UPDATE, inside the transaction
replace_plans_cancel_KeepPending(P, chat_id) == P

replace_plans_cancel(P, chat_id) == cancel_all_plans(P, chat_id)

\* UPDATE plans SET status = 'sent' WHERE id = ?
mark_plan_sent(P, plan_id) ==
    [i \in DOMAIN P |-> IF i = plan_id THEN [P[i] EXCEPT !.status = "sent"] ELSE P[i]]

mark_plan_canceled_NoWrite(P, plan_id) == P

\* UPDATE plans SET status = 'canceled' WHERE id = ?
mark_plan_canceled(P, plan_id) ==
    [i \in DOMAIN P |-> IF i = plan_id THEN [P[i] EXCEPT !.status = "canceled"] ELSE P[i]]

\* UPDATE plans SET send_at_utc = ? WHERE id = ?
reschedule_plan(P, plan_id, send_at_utc) ==
    [i \in DOMAIN P |-> IF i = plan_id THEN [P[i] EXCEPT !.send_at_utc = send_at_utc] ELSE P[i]]

\* INSERT INTO plans (...) VALUES (?, ?, ..., 'pending', ...): the new row takes
\* the next id.  `via` records the call that inserted the row and `texts` the
\* local dates at which the plan's text was handed to the connector (history).
insert_plan(P, chat_id, send_at_utc, via) ==
    Append(P, [chat_id |-> chat_id, send_at_utc |-> send_at_utc,
               status |-> "pending", via |-> via, texts |-> << >>])

\* add_plan(chat_id, send_at_utc, ...): the INSERT of one pending row, with
\* no look at the pending plans the chat already has.  No code of the process
\* calls it.
add_plan(P, chat_id, send_at_utc) == insert_plan(P, chat_id, send_at_utc, "add_plan")

\* The plans table as the last commit left it: what a rollback restores
CommittedPlans == IF lock = 0 THEN plans ELSE txn

----------------------------------------------------------------------------
(* The running process: request workers, the scheduler job, the clock *)

MaxTurns == 2       \* inbound events accepted in a run
MaxPlans == 2       \* rows the plans table may hold in a run
MaxClockSteps == 2  \* times the clock is seen to advance in a run
MaxTexts == 2       \* times the text of one plan is seen to go out in a run

Chats == {1, 2}     \* the chats that send events
Workers == {1, 2}   \* the request-handling threads that run at the same time

\* The instants the clock is observed at: local noon of day 0, then every
\* cooldown period later (18:00, outside the quiet hours; 00:00 of the next
\* day, inside)
StartClock == to_utc_ts(Dt(12 * Hour - TzOffset, TzOffset))
ClockStep == settings.proactive.cooldown_hours * Hour

\* ------------------------------------------------------------------------
\* bot/main.py

\* plan_item.send_at, the string of the model: no ISO datetime, a datetime
\* without offset (wall clock), or a datetime with offset `off` (0 for Z)
Raw(kind, wall, off) == [kind |-> kind, wall |-> wall, off |-> off]
Garbage == Raw("garbage", 0, 0)

NoItem == [present |-> FALSE, send_at |-> Garbage, confidence |-> 0]

\* A call, as far as the properties below speak of it: its name, the chat
\* and the plan it is about, the plan ids it read or found pending, what
\* else it is known by, and for _apply_planning the directive and its item
Op(op, chat_id, plan_id, ids, info) ==
    [op |-> op, chat_id |-> chat_id, plan_id |-> plan_id,
     ids |-> ids, info |-> info, action |-> "", pending_count |-> 0,
     item |-> NoItem]

\* planning.items[0] as the model may return it: its send time unparsable,
\* the present moment as local wall-clock time without offset, or half a day
\* ahead written in UTC (trailing Z)
Items(now_utc) ==
    [present : {TRUE},
     send_at : {Garbage,
                Raw("naive", Wall(local_now(now_utc)), 0),
                Raw("offset", now_utc + 12 * Hour, 0)},
     confidence : {5, 9}]

Actions == {"none", "cancel_all", "replace_all", "append"}

Decision(kind, send_at_utc, why) ==
    [kind |-> kind, send_at_utc |-> send_at_utc, why |-> why]

\* _apply_planning, line 123: the pending cap of an append
AtPendingCap_Above(pending_count, s) ==
    pending_count > s.proactive.max_pending_per_chat

AtPendingCap(pending_count, s) ==
    pending_count >= s.proactive.max_pending_per_chat

\* _apply_planning, lines 100-106: a send time before the end of the cooldown
\* is moved to the end of the cooldown, written in the zone of local_now
cooldown_clamp(send_at_local, conversation, local_now_dt) ==
    LET cooldown_until_local ==
            astimezone(Dt(conversation.last_bot_ts_utc
                          + settings.proactive.cooldown_hours * Hour, 0),
                       local_now_dt.off)
    IN IF /\ conversation.last_bot_ts_utc # NoTs
          /\ send_at_local.utc < cooldown_until_local.utc
       THEN cooldown_until_local
       ELSE send_at_local

\* _apply_planning, lines 98-108: the cooldown clamp, then
\* sanitize_schedule_time and the conversion to a UTC timestamp
planned_send_at_utc(send_at_local, conversation, now_utc) ==
    LET blocks == build_quiet_blocks(RunSettings)
        local_now_dt == local_now(now_utc)
    IN to_utc_ts(sanitize_schedule_time(
                     cooldown_clamp(send_at_local, conversation, local_now_dt),
                     local_now_dt, blocks))

\* _apply_planning, lines 80-83: a directive without an item
apply_planning_without_item_Noop(action) == Decision("noop", 0, "no_item")

apply_planning_without_item(action) ==
    IF action = "replace_all" THEN Decision("cancel_all", 0, "no_item")
    ELSE Decision("noop", 0, "no_item")

\* _apply_planning up to its call of the plan store: the call it makes
apply_planning(chat_type, action, plan_item, pending_count, conversation, now_utc) ==
    IF action = "cancel_all" THEN Decision("cancel_all", 0, "cancel_all")
    ELSE IF ~plan_item.present
    THEN apply_planning_without_item(action)
    ELSE IF ~should_schedule_proactive(settings, chat_type)
    THEN Decision("noop", 0, "not_allowed")
    ELSE IF ~can_use_plan(plan_item, settings)
    THEN Decision("noop", 0, "low_confidence")
    ELSE IF conversation.daily_count >= settings.proactive.max_per_day
    THEN Decision("noop", 0, "daily_max")
    ELSE LET parsed == parse_send_at(plan_item.send_at, TzOffset) IN
         IF Len(parsed) = 0
         THEN Decision("noop", 0, "unparsable")
         ELSE LET send_at_utc == planned_send_at_utc(parsed[1], conversation, now_utc)
              IN IF action = "replace_all"
                 THEN Decision("replace", send_at_utc, "replace_all")
                 ELSE IF action = "append"
                 THEN IF AtPendingCap(pending_count, settings)
                      THEN Decision("noop", 0, "pending_cap")
                      ELSE Decision("append", send_at_utc, "append")
                 ELSE Decision("noop", 0, "action_none")

IdleTurn ==
    [pc |-> "idle", chat_id |-> 0, chat_type |-> "direct", is_mention |-> FALSE,
     conversation |-> ConversationState(NoConversation),
     pending_count |-> 0, now_utc_ts |-> 0, send_at_utc |-> 0,
     local_date |-> NoDate, kind |-> "noop", why |-> ""]

\* `with self._lock:` of a reading call: the read waits for the lock
ReadLockAvailable_NoLock == TRUE

ReadLockAvailable == lock = 0

\* wechat_event, line 186: ensure_conversation inserts the row of a new chat
\* and returns its state, or updates chat_type of a known chat; when the
\* store raises, nothing is written and the request ends with an error.  The
\* request goes to the first free worker, and chats are numbered in the order
\* of their first event (workers and chats are interchangeable).
TurnStart(w) ==
    /\ turn[w].pc = "idle"
    /\ \A v \in Workers : v < w => turn[v].pc # "idle"
    /\ started < MaxTurns
    /\ lock = 0
    /\ \E chat_id \in Chats, chat_type \in {"direct", "group"}, is_mention \in BOOLEAN,
          ok \in BOOLEAN :
         /\ \A c \in Chats : c < chat_id => convs[c].exists
         /\ chat_type = "direct" => ~is_mention
         /\ IF ~ok
            THEN UNCHANGED <<convs, turn>>
            ELSE IF ~convs[chat_id].exists
            THEN /\ convs' = [convs EXCEPT ![chat_id] = NewConversation(chat_type)]
                 /\ turn' = [turn EXCEPT ![w] =
                        [IdleTurn EXCEPT !.pc = "refresh", !.chat_id = chat_id,
                                         !.chat_type = chat_type, !.is_mention = is_mention,
                                         !.conversation = ConversationState(NewConversation(chat_type))]]
            ELSE /\ convs' = [convs EXCEPT ![chat_id].chat_type = chat_type]
                 /\ turn' = [turn EXCEPT ![w] =
                        [IdleTurn EXCEPT !.pc = "get_conversation", !.chat_id = chat_id,
                                         !.chat_type = chat_type, !.is_mention = is_mention]]
         /\ lastOp' = Op("ensure_conversation", 0, 0, {}, IF ok THEN "" ELSE "failed")
    /\ started' = started + 1
    /\ UNCHANGED <<clock, plans, lock, txn, tick, polIn, polOut>>

\* ensure_conversation, line 154: return self.get_conversation(chat_id); when
\* the read raises the request ends with an error
TurnGetConversation(w) ==
    /\ turn[w].pc = "get_conversation"
    /\ lock = 0
    /\ \E ok \in BOOLEAN :
         /\ turn' = [turn EXCEPT ![w] =
                IF ok THEN [turn[w] EXCEPT !.pc = "refresh",
                                           !.conversation =
                                               ConversationState(convs[turn[w].chat_id])]
                ELSE IdleTurn]
         /\ lastOp' = Op("get_conversation", 0, 0, {}, IF ok THEN "" ELSE "failed")
    /\ UNCHANGED <<clock, convs, plans, lock, txn, tick, started, polIn, polOut>>

\* wechat_event, lines 200-204: a group event that does not mention the bot
\* ends the request after the refresh of the counter
AfterRefresh(t, conversation) ==
    IF t.chat_type = "group" /\ ~should_reply_in_group(t.is_mention, settings)
    THEN IdleTurn
    ELSE [t EXCEPT !.pc = "get_pending_plans", !.conversation = conversation,
                   !.local_date = NoDate]

\* wechat_event, lines 187-197, and _refresh_daily_counter, lines 58-59: the
\* event is stored (add_message, update_last_user_ts; when one raises the
\* request ends with an error), then the local date is read from the clock
\* and compared with the date of the conversation read above
TurnRefresh(w) ==
    /\ turn[w].pc = "refresh"
    /\ \E ok \in BOOLEAN :
         LET t == turn[w]
             local_date == DateOf(local_now(clock))
         IN /\ turn' = [turn EXCEPT ![w] =
                   IF ~ok THEN IdleTurn
                   ELSE IF t.conversation.daily_date # local_date
                   THEN [t EXCEPT !.pc = "refresh_write", !.local_date = local_date]
                   ELSE AfterRefresh(t, t.conversation)]
            /\ lastOp' = Op("refresh_daily_counter", 0, 0, {}, IF ok THEN "" ELSE "failed")
    /\ UNCHANGED <<clock, convs, plans, lock, txn, tick, started, polIn, polOut>>

\* _refresh_daily_counter, lines 60-61: update_daily_counter(chat_id, 0,
\* local_date) with the date read before; when it raises the request ends
TurnRefreshWrite(w) ==
    /\ turn[w].pc = "refresh_write"
    /\ lock = 0
    /\ \E ok \in BOOLEAN :
         LET t == turn[w] IN
         /\ convs' = IF ok THEN update_daily_counter(convs, t.chat_id, 0, t.local_date)
                     ELSE convs
         /\ turn' = [turn EXCEPT ![w] =
                IF ok THEN AfterRefresh(t, [t.conversation EXCEPT !.daily_count = 0,
                                                                  !.daily_date = t.local_date])
                ELSE IdleTurn]
         /\ lastOp' = Op("update_daily_counter", t.chat_id, 0, {},
                         IF ok THEN "refresh" ELSE "failed")
    /\ UNCHANGED <<clock, plans, lock, txn, tick, started, polIn, polOut>>

\* wechat_event, lines 206-209 and 228: the recent messages and the pending
\* plans of the chat are read for the model's context; the number of pending
\* plans is the pending_count of the turn.  A read that raises ends the
\* request.
TurnGetPendingPlans(w) ==
    /\ turn[w].pc = "get_pending_plans"
    /\ ReadLockAvailable
    /\ \E ok \in BOOLEAN :
         /\ turn' = [turn EXCEPT ![w] =
                IF ok THEN [turn[w] EXCEPT !.pc = "send_reply",
                                           !.pending_count =
                                               Len(get_pending_plans(plans, turn[w].chat_id))]
                ELSE IdleTurn]
         /\ lastOp' = Op("get_pending_plans", turn[w].chat_id, 0,
                         PendingIds(plans, turn[w].chat_id), IF ok THEN "" ELSE "failed")
    /\ UNCHANGED <<clock, convs, plans, lock, txn, tick, started, polIn, polOut>>

\* wechat_event, lines 209-214: the model answers and the reply is sent, then
\* the clock is read; a failure of either call ends the request with an error
TurnSendReply(w) ==
    /\ turn[w].pc = "send_reply"
    /\ \E ok \in BOOLEAN :
         /\ turn' = [turn EXCEPT ![w] =
                IF ok THEN [turn[w] EXCEPT !.pc = "update_last_bot_ts",
                                           !.now_utc_ts = clock]
                ELSE IdleTurn]
         /\ lastOp' = Op("send_reply", 0, 0, {}, IF ok THEN "" ELSE "failed")
    /\ UNCHANGED <<clock, convs, plans, lock, txn, tick, started, polIn, polOut>>

\* wechat_event, lines 215-217: the reply is stored (add_message) and recorded
\* as the last bot send; when a call raises before the write of
\* last_bot_ts_utc the request ends without it
TurnUpdateLastBotTs(w) ==
    /\ turn[w].pc = "update_last_bot_ts"
    /\ lock = 0
    /\ \E ok \in BOOLEAN :
         /\ convs' = IF ok
                     THEN update_last_bot_ts(convs, turn[w].chat_id, turn[w].now_utc_ts)
                     ELSE convs
         /\ turn' = [turn EXCEPT ![w] =
                IF ok THEN [turn[w] EXCEPT !.pc = "apply_planning",
                                           !.conversation.last_bot_ts_utc = turn[w].now_utc_ts]
                ELSE IdleTurn]
         /\ lastOp' = Op("update_last_bot_ts", 0, 0, {}, IF ok THEN "" ELSE "failed")
    /\ UNCHANGED <<clock, plans, lock, txn, tick, started, polIn, polOut>>

\* wechat_event, lines 219-229, and _apply_planning up to its call of the
\* plan store (lines 73-117): the gif of the reply (a failure ends the
\* request), then the directive of the model is turned into the store call to
\* make, with the send time computed from the clock as read at line 99.  A
\* directive that makes no call ends the request.
TurnApplyPlanning(w) ==
    /\ turn[w].pc = "apply_planning"
    /\ \/ /\ turn' = [turn EXCEPT ![w] = IdleTurn]
          /\ lastOp' = Op("send_reply_gif", turn[w].chat_id, 0, {}, "failed")
       \/ \E action \in Actions, plan_item \in Items(clock) \cup {NoItem} :
            LET t == turn[w]
                d == apply_planning(t.chat_type, action, plan_item, t.pending_count,
                                    t.conversation, clock)
            IN /\ turn' = [turn EXCEPT ![w] =
                      IF d.kind = "noop" THEN IdleTurn
                      ELSE [t EXCEPT !.pc = "plan_write", !.kind = d.kind,
                                     !.why = d.why,
                                     !.send_at_utc = d.send_at_utc]]
               /\ lastOp' = [Op("apply_planning", t.chat_id, 0, {}, d.why)
                              EXCEPT !.action = action,
                                     !.item = plan_item,
                                     !.pending_count = IF action = "append"
                                                       THEN t.pending_count ELSE 0]
    /\ UNCHANGED <<clock, convs, plans, lock, txn, tick, started, polIn, polOut>>

\* _apply_planning, lines 77, 82, 119 and 125: the call of the plan store,
\* which waits for the lock (the call is known by the branch of
\* _apply_planning that makes it).  cancel_all_plans and append_plans are one
\* statement each; replace_plans opens a transaction and cancels the pending
\* plans of the chat, and its INSERT is the next step of the worker.  When
\* the call raises, nothing is written and the request ends with an error.
TurnPlanWrite(w) ==
    /\ turn[w].pc = "plan_write"
    /\ lock = 0
    /\ \E ok \in BOOLEAN :
         LET t == turn[w]
             begun == ok /\ t.kind = "replace"
         IN /\ (ok /\ t.kind \in {"replace", "append"}) => Len(plans) < MaxPlans
            /\ plans' = CASE ~ok -> plans
                          [] t.kind = "cancel_all" -> cancel_all_plans(plans, t.chat_id)
                          [] t.kind = "replace" -> replace_plans_cancel(plans, t.chat_id)
                          [] t.kind = "append" ->
                                 insert_plan(plans, t.chat_id, t.send_at_utc, "append")
                          [] OTHER -> plans
            /\ lock' = IF begun THEN w ELSE lock
            /\ txn' = IF begun THEN plans ELSE txn
            /\ turn' = [turn EXCEPT ![w] =
                   IF begun THEN [t EXCEPT !.pc = "replace_insert"] ELSE IdleTurn]
            /\ lastOp' = [Op(IF t.kind = "replace" THEN "replace_begin" ELSE t.kind,
                             t.chat_id, 0,
                             IF t.kind = "cancel_all"
                             THEN PendingIds(plans, t.chat_id) ELSE {},
                             IF ok THEN "" ELSE "failed")
                           EXCEPT !.action = t.why]
    /\ UNCHANGED <<clock, convs, tick, started, polIn, polOut>>

\* replace_plans, line 320 (with self._conn): the rollback puts the rows of the table back to
\* what was last committed; a text that has gone out meanwhile stays gone out
rollback(T, P) == [p \in DOMAIN T |-> [T[p] EXCEPT !.texts = P[p].texts]]

\* replace_plans, lines 329-336: the INSERT, then the commit of the
\* transaction; when the INSERT raises, the transaction is rolled back
TurnReplaceInsert(w) ==
    /\ turn[w].pc = "replace_insert"
    /\ lock = w
    /\ \E ok \in BOOLEAN :
         /\ plans' = IF ok
                     THEN insert_plan(plans, turn[w].chat_id, turn[w].send_at_utc, "replace")
                     ELSE rollback(txn, plans)
         /\ lastOp' = Op(IF ok THEN "replace_plans" ELSE "replace_failed",
                         turn[w].chat_id, IF ok THEN Len(plans) + 1 ELSE 0,
                         PendingIds(txn, turn[w].chat_id), IF ok THEN "" ELSE "failed")
    /\ lock' = 0
    /\ txn' = << >>
    /\ turn' = [turn EXCEPT ![w] = IdleTurn]
    /\ UNCHANGED <<clock, convs, tick, started, polIn, polOut>>

\* ------------------------------------------------------------------------
\* bot/scheduler.py

IdleTick ==
    [pc |-> "idle", now_utc |-> 0, due |-> << >>, i |-> 0,
     conversation |-> ConversationState(NoConversation),
     daily_count |-> 0, current_date |-> NoDate, local_now_dt |-> Dt(0, 0),
     handled |-> << >>, dispatched |-> FALSE]

\* _next_after_cooldown: None (NoTs) without a last bot send
next_after_cooldown(last_bot_ts_utc, cooldown_hours) ==
    IF last_bot_ts_utc = NoTs THEN NoTs
    ELSE last_bot_ts_utc + cooldown_hours * Hour

\* _handle_plan, lines 72-89: where the plan goes once the daily count is known
AfterDailyCount_SkipSend(daily_count, local_now_dt, conversation, now_utc) ==
    LET cooldown_until == next_after_cooldown(conversation.last_bot_ts_utc,
                                              settings.proactive.cooldown_hours)
    IN IF daily_count >= settings.proactive.max_per_day THEN "cancel_max"
       ELSE IF is_within_quiet_hours(local_now_dt, build_quiet_blocks(RunSettings))
       THEN "reschedule_quiet"
       ELSE IF cooldown_until # NoTs /\ now_utc < cooldown_until
       THEN "reschedule_cooldown"
       ELSE "mark_plan_sent"

AfterDailyCount_Above(daily_count, local_now_dt, conversation, now_utc) ==
    LET cooldown_until == next_after_cooldown(conversation.last_bot_ts_utc,
                                              settings.proactive.cooldown_hours)
    IN IF daily_count > settings.proactive.max_per_day THEN "cancel_max"
       ELSE IF is_within_quiet_hours(local_now_dt, build_quiet_blocks(RunSettings))
       THEN "reschedule_quiet"
       ELSE IF cooldown_until # NoTs /\ now_utc < cooldown_until
       THEN "reschedule_cooldown"
       ELSE "send_text"

AfterDailyCount(daily_count, local_now_dt, conversation, now_utc) ==
    LET cooldown_until == next_after_cooldown(conversation.last_bot_ts_utc,
                                              settings.proactive.cooldown_hours)
    IN IF daily_count >= settings.proactive.max_per_day THEN "cancel_max"
       ELSE IF is_within_quiet_hours(local_now_dt, build_quiet_blocks(RunSettings))
       THEN "reschedule_quiet"
       ELSE IF cooldown_until # NoTs /\ now_utc < cooldown_until
       THEN "reschedule_cooldown"
       ELSE "send_text"

\* process_due_plans, line 45: the loop goes on to the next plan of the batch,
\* also after an exception of _handle_plan
NextPlan_EndOfBatch(t) == IdleTick

NextPlan(t) ==
    IF t.i < Len(t.due)
    THEN [IdleTick EXCEPT !.pc = "get_conversation", !.now_utc = t.now_utc,
                          !.due = t.due, !.i = t.i + 1, !.handled = t.handled]
    ELSE IdleTick

CurrentPlan == tick.due[tick.i]

\* process_due_plans, lines 47-49: the exception of a plan is logged, and
\* nothing is written to the store for the plan
except_Exception_Canceled(P, plan_id) == [P EXCEPT ![plan_id].status = "canceled"]

except_Exception(P, plan_id) == P

\* The plans of the batch that the loop has already been through
HandledBefore == {tick.due[k] : k \in 1..(tick.i - 1)}

\* process_due_plans, lines 37-38: the job reads the clock
TickStart ==
    /\ tick.pc = "idle"
    /\ tick' = [IdleTick EXCEPT !.pc = "get_due_plans", !.now_utc = clock]
    /\ lastOp' = Op("utc_now", 0, 0, {}, "")
    /\ UNCHANGED <<clock, convs, plans, lock, txn, turn, started, polIn, polOut>>

\* process_due_plans, lines 41-43: the due plans at the time read before are
\* fetched under the lock of the store; without a due plan the job returns.
\* When the read raises the job ends (the call is outside the try).
TickGetDuePlans ==
    /\ tick.pc = "get_due_plans"
    /\ ReadLockAvailable
    /\ \E ok \in BOOLEAN :
       \E due \in {IF ok THEN get_due_plans(plans, tick.now_utc, DueLimit) ELSE << >>} :
         /\ tick' = IF due = << >> THEN IdleTick
                    ELSE [tick EXCEPT !.pc = "get_conversation", !.due = due, !.i = 1]
         /\ lastOp' = Op("get_due_plans", 0, 0,
                         {due[k] : k \in 1..Len(due)},
                         IF ok THEN "" ELSE "failed")
    /\ UNCHANGED <<clock, convs, plans, lock, txn, turn, started, polIn, polOut>>

\* _handle_plan, lines 61-65: the conversation of the plan is read under the
\* lock and the chat is tested for proactive messages.  get_conversation
\* raises when the row is missing or the store fails, which ends the handling
\* of this plan.
TickGetConversation ==
    /\ tick.pc = "get_conversation"
    /\ lock = 0
    /\ \E ok \in BOOLEAN :
         LET conversation == ConversationState(convs[plans[CurrentPlan].chat_id])
             entered == [tick EXCEPT !.handled = Append(tick.handled, CurrentPlan)]
         IN /\ tick' =
                 IF ~ok THEN NextPlan(entered)
                 ELSE IF ~should_schedule_proactive(settings, conversation.chat_type)
                 THEN [entered EXCEPT !.pc = "cancel_disabled",
                                      !.conversation = conversation]
                 ELSE [entered EXCEPT !.pc = "local_now",
                                      !.conversation = conversation]
            /\ plans' = IF ok THEN plans ELSE except_Exception(plans, CurrentPlan)
            /\ lastOp' = Op("get_conversation", 0, 0, {}, IF ok THEN "" ELSE "failed")
    /\ UNCHANGED <<clock, convs, lock, txn, turn, started, polIn, polOut>>

\* _handle_plan, lines 67-89, up to the first call of the store: the local
\* clock is read, the date of the conversation read before is compared with
\* the local date, and with a counter of today the plan goes where the daily
\* count, the quiet hours and the cooldown send it
TickLocalNow ==
    /\ tick.pc = "local_now"
    /\ LET local_now_dt == local_now(clock)
           current_date == DateOf(local_now_dt)
       IN tick' =
            IF tick.conversation.daily_date # current_date
            THEN [tick EXCEPT !.pc = "rollover",
                              !.local_now_dt = local_now_dt,
                              !.current_date = current_date]
            ELSE [tick EXCEPT !.pc = AfterDailyCount(tick.conversation.daily_count,
                                                     local_now_dt, tick.conversation,
                                                     tick.now_utc),
                              !.local_now_dt = local_now_dt,
                              !.current_date = current_date,
                              !.daily_count = tick.conversation.daily_count]
    /\ lastOp' = Op("local_now", 0, CurrentPlan, {}, "")
    /\ UNCHANGED <<clock, convs, plans, lock, txn, turn, started, polIn, polOut>>

\* _refresh_daily_counter, lines 23-25: the counter of another day is reset;
\* when the write raises the handling of this plan ends
TickRollover ==
    /\ tick.pc = "rollover"
    /\ lock = 0
    /\ \E ok \in BOOLEAN :
         /\ convs' = IF ok
                     THEN update_daily_counter(convs, plans[CurrentPlan].chat_id, 0,
                                               tick.current_date)
                     ELSE convs
         /\ tick' = IF ok
                    THEN [tick EXCEPT !.pc = AfterDailyCount(0, tick.local_now_dt,
                                                             tick.conversation,
                                                             tick.now_utc),
                                      !.daily_count = 0]
                    ELSE NextPlan(tick)
         /\ lastOp' = Op("update_daily_counter", 0, 0, {}, IF ok THEN "" ELSE "failed")
    /\ UNCHANGED <<clock, plans, lock, txn, turn, started, polIn, polOut>>

\* _handle_plan, lines 63 and 73: mark_plan_canceled; when it raises the plan
\* is left as it is
TickCancel ==
    /\ tick.pc \in {"cancel_disabled", "cancel_max"}
    /\ lock = 0
    /\ \E ok \in BOOLEAN :
         /\ plans' = IF ok THEN mark_plan_canceled(plans, CurrentPlan)
                     ELSE except_Exception(plans, CurrentPlan)
         /\ lastOp' = [Op("mark_plan_canceled", 0, CurrentPlan, HandledBefore,
                          IF ok THEN plans[CurrentPlan].status ELSE "failed")
                        EXCEPT !.action = tick.pc]
    /\ tick' = NextPlan(tick)
    /\ UNCHANGED <<clock, convs, lock, txn, turn, started, polIn, polOut>>

\* _handle_plan, lines 78-79: reschedule_plan to the end of the quiet hours;
\* when it raises the plan keeps its send time
TickRescheduleQuiet ==
    /\ tick.pc = "reschedule_quiet"
    /\ lock = 0
    /\ \E ok \in BOOLEAN :
         /\ plans' = IF ok
                     THEN reschedule_plan(plans, CurrentPlan,
                              to_utc_ts(next_allowed_time(tick.local_now_dt,
                                                          build_quiet_blocks(RunSettings))))
                     ELSE except_Exception(plans, CurrentPlan)
         /\ lastOp' = Op("reschedule_plan", 0, CurrentPlan, {},
                         IF ok THEN "quiet_hours" ELSE "failed")
    /\ tick' = NextPlan(tick)
    /\ UNCHANGED <<clock, convs, lock, txn, turn, started, polIn, polOut>>

\* _handle_plan, line 85: reschedule_plan to the end of the cooldown; when it
\* raises the plan keeps its send time
TickRescheduleCooldown ==
    /\ tick.pc = "reschedule_cooldown"
    /\ lock = 0
    /\ \E ok \in BOOLEAN :
         /\ plans' = IF ok
                     THEN reschedule_plan(plans, CurrentPlan,
                              next_after_cooldown(tick.conversation.last_bot_ts_utc,
                                                  settings.proactive.cooldown_hours))
                     ELSE except_Exception(plans, CurrentPlan)
         /\ lastOp' = Op("reschedule_plan", 0, CurrentPlan, {},
                         IF ok THEN "cooldown" ELSE "failed")
    /\ tick' = NextPlan(tick)
    /\ UNCHANGED <<clock, convs, lock, txn, turn, started, polIn, polOut>>

\* connector.send_text(chat_id, text) returned: the text of the plan went out
\* on the local date `date`
connector_send_text(P, plan_id, date) ==
    [P EXCEPT ![plan_id].texts = Append(@, date)]

\* _handle_plan, line 89: connector.send_text; an exception ends the handling
\* of this plan.  tick.dispatched remembers, for the plan being handled, that
\* send_text has returned.
TickSendText ==
    /\ tick.pc = "send_text"
    /\ \E ok \in BOOLEAN :
         /\ ok => Len(plans[CurrentPlan].texts) < MaxTexts
         /\ tick' = IF ok THEN [tick EXCEPT !.pc = "add_message", !.dispatched = TRUE]
                    ELSE NextPlan(tick)
         /\ plans' = IF ok THEN connector_send_text(plans, CurrentPlan, Today)
                     ELSE except_Exception(plans, CurrentPlan)
         /\ lastOp' = Op("send_text", 0, CurrentPlan, {}, IF ok THEN "" ELSE "failed")
    /\ UNCHANGED <<clock, convs, lock, txn, turn, started, polIn, polOut>>

\* _handle_plan, line 90: add_message; an exception ends the handling of this
\* plan
TickAddMessage ==
    /\ tick.pc = "add_message"
    /\ lock = 0
    /\ \E ok \in BOOLEAN :
         /\ tick' = IF ok THEN [tick EXCEPT !.pc = "send_gif"] ELSE NextPlan(tick)
         /\ plans' = IF ok THEN plans ELSE except_Exception(plans, CurrentPlan)
         /\ lastOp' = Op("add_message", 0, CurrentPlan, {}, IF ok THEN "" ELSE "failed")
    /\ UNCHANGED <<clock, convs, lock, txn, turn, started, polIn, polOut>>

\* _handle_plan, lines 92-96: without a gif_tag, when allow_gif says no or
\* when pick_gif finds no file, nothing more is sent ("skip"); else
\* connector.send_gif, whose exception ends the handling of this plan
\* ("fail"), and the add_message of the gif ("ok")
GifOutcomes == {"skip", "ok", "fail"}

TickSendGif ==
    /\ tick.pc = "send_gif"
    /\ \E outcome \in GifOutcomes :
         /\ outcome = "ok" => lock = 0
         /\ tick' = IF outcome = "fail" THEN NextPlan(tick)
                    ELSE [tick EXCEPT !.pc = "mark_plan_sent"]
         /\ plans' = IF outcome = "fail" THEN except_Exception(plans, CurrentPlan)
                     ELSE plans
         /\ lastOp' = Op(IF outcome = "skip" THEN "allow_gif" ELSE "send_gif",
                         0, CurrentPlan, {}, IF outcome = "fail" THEN "failed" ELSE "")
    /\ UNCHANGED <<clock, convs, lock, txn, turn, started, polIn, polOut>>

\* _handle_plan, line 98: mark_plan_sent; when it raises the handling of this
\* plan ends with the plan as it is
TickMarkPlanSent ==
    /\ tick.pc = "mark_plan_sent"
    /\ lock = 0
    /\ \E ok \in BOOLEAN :
         /\ plans' = IF ok THEN mark_plan_sent(plans, CurrentPlan)
                     ELSE except_Exception(plans, CurrentPlan)
         /\ tick' = IF ok THEN [tick EXCEPT !.pc = "update_last_bot_ts"]
                    ELSE NextPlan(tick)
         /\ lastOp' = Op("mark_plan_sent", 0, CurrentPlan, {},
                         IF ok THEN plans[CurrentPlan].status ELSE "failed")
    /\ UNCHANGED <<clock, convs, lock, txn, turn, started, polIn, polOut>>

\* _handle_plan, line 99: update_last_bot_ts; when it raises the handling of
\* this plan ends, before the counter is written
TickUpdateLastBotTs ==
    /\ tick.pc = "update_last_bot_ts"
    /\ lock = 0
    /\ \E ok \in BOOLEAN :
         /\ convs' = IF ok
                     THEN update_last_bot_ts(convs, plans[CurrentPlan].chat_id,
                                             tick.now_utc)
                     ELSE convs
         /\ tick' = IF ok THEN [tick EXCEPT !.pc = "update_daily_counter"]
                    ELSE NextPlan(tick)
         /\ lastOp' = Op("update_last_bot_ts", 0, 0, {}, IF ok THEN "" ELSE "failed")
    /\ UNCHANGED <<clock, plans, lock, txn, turn, started, polIn, polOut>>

\* _handle_plan, line 100: update_daily_counter; when it raises the counter
\* stays as it is
TickUpdateDailyCounter ==
    /\ tick.pc = "update_daily_counter"
    /\ lock = 0
    /\ \E ok \in BOOLEAN :
         /\ convs' = IF ok
                     THEN update_daily_counter(convs, plans[CurrentPlan].chat_id,
                                               tick.daily_count + 1, tick.current_date)
                     ELSE convs
         /\ lastOp' = Op("update_daily_counter", plans[CurrentPlan].chat_id, CurrentPlan,
                         {}, IF ok THEN "dispatched" ELSE "failed")
    /\ tick' = NextPlan(tick)
    /\ UNCHANGED <<clock, plans, lock, txn, turn, started, polIn, polOut>>

\* ------------------------------------------------------------------------
\* Time passes

Advance ==
    /\ clock < StartClock + MaxClockSteps * ClockStep
    /\ clock' = clock + ClockStep
    /\ lastOp' = Op("advance", 0, 0, {}, "")
    /\ UNCHANGED <<convs, plans, lock, txn, turn, tick, started, polIn, polOut>>

\* ------------------------------------------------------------------------

NoPolicyIn == [cand |-> Dt(0, 0), now |-> Dt(0, 0), blocks |-> << >>]
NoCall == [op |-> "none"]

Init ==
    /\ clock = StartClock
    /\ convs = [c \in Chats |-> NoConversation]
    /\ plans = << >>
    /\ lock = 0
    /\ txn = << >>
    /\ turn = [w \in Workers |-> IdleTurn]
    /\ tick = IdleTick
    /\ started = 0
    /\ lastOp = Op("init", 0, 0, {}, "")
    /\ polIn = NoPolicyIn
    /\ polOut = NoCall

TurnNext(w) ==
    \/ TurnStart(w)
    \/ TurnGetConversation(w)
    \/ TurnRefresh(w)
    \/ TurnRefreshWrite(w)
    \/ TurnGetPendingPlans(w)
    \/ TurnSendReply(w)
    \/ TurnUpdateLastBotTs(w)
    \/ TurnApplyPlanning(w)
    \/ TurnPlanWrite(w)
    \/ TurnReplaceInsert(w)

TickNext ==
    \/ TickStart
    \/ TickGetDuePlans
    \/ TickGetConversation
    \/ TickLocalNow
    \/ TickRollover
    \/ TickCancel
    \/ TickRescheduleQuiet
    \/ TickRescheduleCooldown
    \/ TickSendText
    \/ TickAddMessage
    \/ TickSendGif
    \/ TickMarkPlanSent
    \/ TickUpdateLastBotTs
    \/ TickUpdateDailyCounter

Next ==
    \/ \E w \in Workers : TurnNext(w)
    \/ TickNext
    \/ Advance

Spec == Init /\ [][Next]_vars

----------------------------------------------------------------------------
(* Properties of the plan store, the turns and the execution loop (checked
   under Spec) *)

DueIds(P, now_utc) == LET due == get_due_plans(P, now_utc, DueLimit) IN
                      {due[k] : k \in 1..Len(due)}

\* C1: once the status of a plan is sent or canceled, no later call of the
\* plan store changes its status or its send_at.
C1_TerminalPlanNeverChanges ==
    [][\A i \in DOMAIN CommittedPlans :
          CommittedPlans[i].status \in Terminal =>
              /\ CommittedPlans'[i].status = CommittedPlans[i].status
              /\ CommittedPlans'[i].send_at_utc = CommittedPlans[i].send_at_utc]_vars

\* C2: a plan is never marked both canceled and sent: the writer that comes
\* second finds the plan terminal and leaves its status alone, so
\* mark_plan_sent never turns a canceled plan into a sent one and
\* mark_plan_canceled never turns a sent plan into a canceled one.
C2_AtMostOneOutcome ==
    /\ lastOp.op = "mark_plan_sent" => lastOp.info # "canceled"
    /\ lastOp.op = "mark_plan_canceled" => lastOp.info # "sent"

\* C3: the execution loop calls connector.send_text for a plan, and
\* reschedules a plan, only while the stored status of the plan is pending.
C3_OnlyPendingPlansExecuted ==
    lastOp.op \in {"send_text", "reschedule_plan"} =>
        CommittedPlans[lastOp.plan_id].status = "pending"

\* C4: right after a successful replace_plans(chat, [item]) the chat has
\* exactly one pending plan, the inserted one, and every plan of the chat
\* that was pending before (the plan of an earlier replace_all among them)
\* is canceled.
C4_ReplaceLeavesOnePending ==
    lastOp.op = "replace_plans" =>
        /\ PendingIds(plans, lastOp.chat_id) = {lastOp.plan_id}
        /\ plans[lastOp.plan_id].via = "replace"
        /\ \A i \in lastOp.ids : plans[i].status = "canceled"

\* C4 witness: a second replace_all in a row: the plan the first replace_all
\* inserted was pending and is now canceled.
C4_Witness ==
    /\ lastOp.op = "replace_plans"
    /\ \E i \in lastOp.ids : plans[i].via = "replace" /\ plans[i].status = "canceled"

\* C5: get_pending_plans and get_due_plans return the plans as last committed,
\* never the state in which replace_plans has canceled the old plans and not
\* yet inserted the new one; and a replace_plans whose INSERT failed leaves the
\* pending plans of the chat as they were before the call.
C5_ReplaceAtomicForReaders ==
    [][/\ (lastOp'.op = "get_pending_plans" /\ lastOp'.info # "failed")
          => lastOp'.ids = PendingIds(CommittedPlans, lastOp'.chat_id)
       /\ (tick.pc = "get_due_plans" /\ tick' # tick /\ lastOp'.info # "failed")
          => /\ lastOp'.op = "get_due_plans"
             /\ lastOp'.ids = DueIds(CommittedPlans, tick.now_utc)
       /\ lastOp'.op = "replace_failed"
          => /\ PendingIds(plans', lastOp'.chat_id) = PendingIds(txn, lastOp'.chat_id)
             /\ lastOp'.ids = PendingIds(txn, lastOp'.chat_id)
             /\ lock' = 0]_vars

\* C5 witness: a replace_plans holds the lock with a due plan canceled and the
\* new plan not yet inserted, while the scheduler job is about to read the due
\* plans.
C5_Witness ==
    /\ lock \in Workers
    /\ turn[lock].pc = "replace_insert"
    /\ tick.pc = "get_due_plans"
    /\ DueIds(txn, tick.now_utc) # {}
    /\ DueIds(plans, tick.now_utc) = {}

\* C6: an append directive of a turn that found max_pending_per_chat or more
\* pending plans changes nothing in the plan store: _apply_planning makes no
\* call of the store and the request goes on to its end.
C6_AppendAtCapIsNoOp ==
    [][\A w \in Workers :
          (/\ turn[w].pc = "apply_planning"
           /\ turn'[w].pc # "apply_planning"
           /\ lastOp'.action = "append"
           /\ turn[w].pending_count >= settings.proactive.max_pending_per_chat)
          => /\ turn'[w] = IdleTurn
             /\ plans' = plans /\ lock' = lock /\ convs' = convs]_vars

\* C6 witness: an append directive that passed every policy check was dropped
\* at the pending cap.
C6_Witness ==
    /\ lastOp.op = "apply_planning"
    /\ lastOp.action = "append"
    /\ lastOp.info = "pending_cap"
    /\ lastOp.pending_count >= settings.proactive.max_pending_per_chat
    /\ PendingIds(plans, lastOp.chat_id) # {}
    /\ \A w \in Workers : turn[w].pc = "idle"

\* C7: in every reachable state each chat has at most max_pending_per_chat
\* pending plans.
C7_PendingWithinCap ==
    \A c \in Chats :
        Cardinality(PendingIds(CommittedPlans, c)) <= settings.proactive.max_pending_per_chat

\* C11: whenever the stored daily_date of a conversation differs from the
\* current local date, the daily count that policy compares with max_per_day
\* is 0 and the stored counter is reset to 0 for the current date: a turn
\* refuses a plan for the daily maximum, and the execution loop cancels one
\* for it, only on a count of the current local date, and a refresh that
\* finds another date stored leaves 0 stored for the current date.
C11_StaleDailyCountReadAsZero ==
    [][/\ \A w \in Workers :
            /\ (/\ turn[w].pc = "apply_planning"
                /\ turn'[w].pc # "apply_planning"
                /\ lastOp'.info = "daily_max")
               => convs[turn[w].chat_id].daily_date = Today
            /\ (/\ turn[w].pc = "refresh"
                /\ turn'[w].pc # "refresh"
                /\ lastOp'.info # "failed"
                /\ convs[turn[w].chat_id].daily_date # Today)
               => turn'[w].pc = "refresh_write"
            /\ (/\ turn[w].pc = "refresh_write"
                /\ turn'[w].pc # "refresh_write"
                /\ lastOp'.info # "failed")
               => /\ convs'[turn[w].chat_id].daily_count = 0
                  /\ convs'[turn[w].chat_id].daily_date = Today
       /\ (tick.pc = "local_now" /\ tick'.pc = "cancel_max")
          => convs[plans[CurrentPlan].chat_id].daily_date = Today
       /\ (tick.pc = "rollover" /\ tick' # tick /\ lastOp'.info # "failed")
          => /\ tick'.daily_count = 0
             /\ tick'.pc # "cancel_max"
             /\ convs'[plans[CurrentPlan].chat_id].daily_count = 0
             /\ convs'[plans[CurrentPlan].chat_id].daily_date = tick.current_date]_vars

\* C12: when the execution loop handles a due plan of a conversation it has
\* read with a daily count for the current local date (the date the loop
\* reads for the plan) that has reached max_per_day, its next and only step
\* for the plan is mark_plan_canceled: the plan is canceled (unless the call
\* of the store raises, which leaves it as it is), nothing is sent or recorded
\* for it, the conversation (last bot send, daily counter) stays as it is and
\* the loop goes on to the next plan; so also when the count was reached by a
\* send earlier in the same tick.
C12_CanceledAtDailyMax ==
    [][/\ (tick.pc = "local_now" /\ tick' # tick)
          => ((/\ tick.conversation.daily_date = Today
               /\ tick.conversation.daily_count >= settings.proactive.max_per_day)
              => tick'.pc = "cancel_max")
       /\ (tick.pc = "cancel_max" /\ tick' # tick)
          => /\ lastOp'.op = "mark_plan_canceled"
             /\ plans' = IF lastOp'.info # "failed"
                         THEN [plans EXCEPT ![CurrentPlan].status = "canceled"]
                         ELSE plans
             /\ convs' = convs
             /\ tick' = NextPlan(tick)]_vars

\* C12 witness: the second plan of a batch was canceled at the daily maximum
\* that the first plan of the batch, sent in the same tick, had reached.
C12_Witness ==
    /\ lastOp.op = "mark_plan_canceled"
    /\ plans[lastOp.plan_id].status = "canceled"
    /\ \E j \in lastOp.ids :
          /\ plans[j].chat_id = plans[lastOp.plan_id].chat_id
          /\ plans[j].status = "sent"
          /\ convs[plans[j].chat_id].daily_count >= settings.proactive.max_per_day
          /\ convs[plans[j].chat_id].daily_date = Today

\* Does the local time of day of the instant `utc` lie inside a configured
\* quiet block: in [start, end), or for a block that wraps midnight in
\* [start, 24:00) or [00:00, end)
QuietAt(utc) ==
    LET t == (utc + TzOffset) % Day IN
    \E i \in 1..Len(RunSettings.quiet_hours) :
        LET b == RunSettings.quiet_hours[i] IN
        IF b.start <= b.end THEN b.start <= t /\ t < b.end
        ELSE ~(b.end <= t /\ t < b.start)

\* C13: no proactive message is sent inside a quiet block: at the moment the
\* execution loop calls connector.send_text or send_gif for a plan, the local
\* time of day lies outside every configured quiet block.
C13_NoSendInsideQuietBlock ==
    lastOp.op \in {"send_text", "send_gif"} => ~QuietAt(clock)

\* C14: no proactive message goes out before the cooldown has elapsed: at the
\* moment the execution loop calls connector.send_text for a plan, the chat
\* has no recorded bot send yet or at least cooldown_hours have passed since
\* its last bot send, be that an earlier proactive send or the reply of a
\* turn that runs at the same time.
C14_NoSendBeforeCooldown ==
    lastOp.op = "send_text" =>
        LET last_bot_ts_utc == convs[plans[lastOp.plan_id].chat_id].last_bot_ts_utc
        IN \/ last_bot_ts_utc = NoTs
           \/ clock >= last_bot_ts_utc + settings.proactive.cooldown_hours * Hour

\* The end of the cooldown of the conversation a turn holds
CooldownEnd(w) ==
    turn[w].conversation.last_bot_ts_utc + settings.proactive.cooldown_hours * Hour

\* C15: in _apply_planning, with a last bot send T in the conversation of the
\* turn, a parsed send time earlier than T + cooldown_hours goes to
\* sanitize_schedule_time as exactly T + cooldown_hours (in the configured
\* zone), and every plan the turn writes, by append_plans or replace_plans,
\* has send_at >= T + cooldown_hours.
C15_PlannedAfterCooldown ==
    [][\A w \in Workers :
          /\ (turn[w].pc = "apply_planning" /\ turn[w].conversation.last_bot_ts_utc # NoTs)
             => \A item \in Items(clock) :
                   LET parsed == parse_send_at(item.send_at, TzOffset) IN
                   (Len(parsed) = 1 /\ parsed[1].utc < CooldownEnd(w))
                   => cooldown_clamp(parsed[1], turn[w].conversation, local_now(clock))
                          = Dt(CooldownEnd(w), TzOffset)
          /\ (/\ turn[w].pc \in {"plan_write", "replace_insert"}
              /\ turn'[w].pc = "idle"
              /\ Len(plans') = Len(plans) + 1
              /\ turn[w].conversation.last_bot_ts_utc # NoTs)
             => plans'[Len(plans')].send_at_utc >= CooldownEnd(w)]_vars

\* C16: when connector.send_text or send_gif fails while the execution loop
\* handles a due plan, the loop writes nothing: the status and send time of
\* the plan, the last bot send of the conversation and its daily counter stay
\* as they are, so a plan that was pending is still pending and is among the
\* due plans of the next tick.
C16_FailedSendLeavesPlanPending ==
    [][(lastOp'.op \in {"send_text", "send_gif"} /\ lastOp'.info = "failed")
       => /\ plans' = plans
          /\ convs' = convs
          /\ clock' = clock
          /\ plans[lastOp'.plan_id].status = "pending"
             => /\ plans'[lastOp'.plan_id].status = "pending"
                /\ lastOp'.plan_id \in DueIds(plans', clock')]_vars

\* C16 witness: the send of the only due plan failed; the tick is over and the
\* plan, still pending, is what the next tick will fetch.
C16_Witness ==
    /\ lastOp.op \in {"send_text", "send_gif"}
    /\ lastOp.info = "failed"
    /\ tick.pc = "idle"
    /\ plans[lastOp.plan_id].status = "pending"
    /\ DueIds(plans, clock) = {lastOp.plan_id}

\* Is the sequence of plan ids in ascending order of send time in store P
AscendingSendAt(P, ids) ==
    \A k \in 1..(Len(ids) - 1) : P[ids[k]].send_at_utc <= P[ids[k + 1]].send_at_utc

\* Is the loop, at this position, in the batch of due plans it has fetched
InBatch(pc) == pc \notin {"idle", "get_due_plans"}

\* C17: within one tick an error raised while one due plan is processed
\* (connector failure, missing conversation, store error) does not keep the
\* loop from the remaining plans: the plans returned by get_due_plans for the
\* tick are taken up one after the other in the order returned, ascending by
\* send time, each exactly once, and the tick ends only after the last one.
C17_WholeBatchHandledInOrder ==
    [][/\ (tick.pc = "get_due_plans" /\ tick' # tick)
          => /\ AscendingSendAt(plans, tick'.due)
             /\ tick'.handled = << >>
       /\ (InBatch(tick.pc) /\ InBatch(tick'.pc))
          => /\ tick'.due = tick.due
             /\ Len(tick'.handled) \in {Len(tick.handled), Len(tick.handled) + 1}
             /\ tick'.handled = Prefix(tick.due, Len(tick'.handled))
       /\ (InBatch(tick.pc) /\ tick'.pc = "idle")
          => IF tick.pc = "get_conversation"
             THEN Append(tick.handled, CurrentPlan) = tick.due
             ELSE tick.handled = tick.due]_vars

\* C17 witness: the send for the first plan of a batch of two has just failed
\* and the loop is at the second plan.
C17_Witness ==
    /\ lastOp.op = "send_text"
    /\ lastOp.info = "failed"
    /\ Len(tick.due) = 2
    /\ lastOp.plan_id = tick.due[1]
    /\ tick.pc = "get_conversation"
    /\ CurrentPlan = tick.due[2]
    /\ tick.handled = <<tick.due[1]>>

\* C21: a cancel_all directive leaves the chat without a pending plan:
\* whatever the chat type (proactive messages allowed or not), the candidate
\* item and the daily counter of the conversation, _apply_planning goes to
\* cancel_all_plans, and that call, unless it raises, cancels every plan of the
\* chat that is pending, changes no other row and inserts none.
C21_CancelAllLeavesNoPending ==
    [][\A w \in Workers :
          /\ (/\ turn[w].pc = "apply_planning"
              /\ lastOp'.op = "apply_planning"
              /\ turn'[w] # turn[w]
              /\ lastOp'.action = "cancel_all")
             => /\ turn'[w].pc = "plan_write"
                /\ turn'[w].kind = "cancel_all"
                /\ turn'[w].why = "cancel_all"
          /\ (/\ turn[w].pc = "plan_write"
              /\ turn[w].why = "cancel_all"
              /\ turn'[w] # turn[w]
              /\ lastOp'.info # "failed")
             => /\ PendingIds(plans', turn[w].chat_id) = {}
                /\ Len(plans') = Len(plans)
                /\ \A i \in DOMAIN plans :
                      plans'[i] = IF i \in PendingIds(plans, turn[w].chat_id)
                                  THEN [plans[i] EXCEPT !.status = "canceled"]
                                  ELSE plans[i]
                /\ turn'[w] = IdleTurn]_vars

\* C21 witness: a cancel_all directive has just canceled the pending plan of
\* its chat.
C21_Witness ==
    /\ lastOp.op = "cancel_all"
    /\ lastOp.action = "cancel_all"
    /\ lastOp.info # "failed"
    /\ lastOp.ids # {}
    /\ \A i \in lastOp.ids : plans[i].status = "canceled"
    /\ PendingIds(plans, lastOp.chat_id) = {}

\* C22: without a candidate item a replace_all directive does to the plan
\* store what cancel_all does (cancel_all_plans is called: unless it raises,
\* the pending plans of the chat are canceled and nothing is inserted), and a
\* none or append directive without an item makes no call of the plan store.
C22_NoItemDirectives ==
    [][\A w \in Workers :
          /\ (/\ turn[w].pc = "apply_planning"
              /\ lastOp'.op = "apply_planning"
              /\ turn'[w] # turn[w]
              /\ lastOp'.info = "no_item")
             => /\ lastOp'.action = "replace_all"
                   => /\ turn'[w].pc = "plan_write"
                      /\ turn'[w].kind = "cancel_all"
                      /\ turn'[w].why = "no_item"
                /\ lastOp'.action \in {"none", "append"} => turn'[w] = IdleTurn
                /\ plans' = plans
                /\ lock' = lock
          /\ (/\ turn[w].pc = "plan_write"
              /\ turn[w].why = "no_item"
              /\ turn'[w] # turn[w]
              /\ lastOp'.info # "failed")
             => /\ plans' = cancel_all_plans(plans, turn[w].chat_id)
                /\ PendingIds(plans', turn[w].chat_id) = {}
                /\ Len(plans') = Len(plans)
                /\ lock' = lock
                /\ turn'[w] = IdleTurn]_vars

\* C22 witness: a replace_all directive without an item has just canceled the
\* pending plan of its chat.
C22_Witness ==
    /\ lastOp.op = "cancel_all"
    /\ lastOp.action = "no_item"
    /\ lastOp.info # "failed"
    /\ lastOp.ids # {}
    /\ \A i \in lastOp.ids : plans[i].status = "canceled"
    /\ PendingIds(plans, lastOp.chat_id) = {}

\* Is the send time of the item no ISO datetime
UnparsableSendAt(item) == item.send_at.kind = "garbage"

\* C23: for a replace_all or append directive with a candidate item, when
\* proactive messages are not allowed for the chat, or the confidence of the
\* item is below min_confidence, or the daily count the turn holds after its
\* rollover check has reached max_per_day, or the send time of the item does
\* not parse, _apply_planning changes nothing in the plan store: it returns
\* without a call of the store, so no row changes (pending plans stay pending
\* with their send_at) and none is inserted.
C23_DroppedDirectiveChangesNothing ==
    [][\A w \in Workers :
          (/\ turn[w].pc = "apply_planning"
           /\ lastOp'.op = "apply_planning"
           /\ turn'[w] # turn[w]
           /\ lastOp'.action \in {"replace_all", "append"}
           /\ lastOp'.item.present
           /\ \/ turn[w].chat_type = "group" /\ ~settings.groups.allow_proactive
              \/ ~settings.proactive.enabled
              \/ lastOp'.item.confidence < settings.proactive.min_confidence
              \/ turn[w].conversation.daily_count >= settings.proactive.max_per_day
              \/ UnparsableSendAt(lastOp'.item))
          => /\ plans' = plans
             /\ lock' = lock
             /\ txn' = txn
             /\ turn'[w] = IdleTurn]_vars

\* C23 witness: a replace_all directive whose item is confident enough but
\* has no parsable send time was dropped while the chat had a pending plan,
\* which is still pending.
C23_Witness ==
    /\ lastOp.op = "apply_planning"
    /\ lastOp.info = "unparsable"
    /\ lastOp.action = "replace_all"
    /\ lastOp.item.present
    /\ lastOp.item.confidence >= settings.proactive.min_confidence
    /\ UnparsableSendAt(lastOp.item)
    /\ PendingIds(plans, lastOp.chat_id) # {}

\* C24: when the execution loop takes up a due plan and reads a conversation
\* that is not allowed proactive messages (proactive disabled, or a group chat
\* without groups.allow_proactive), its next and only step for the plan is
\* mark_plan_canceled: the plan is canceled (unless the call of the store
\* raises, which leaves it as it is), nothing is sent for it, and the
\* conversations (daily counter, last bot send) stay as they are.
C24_DisallowedChatCanceled ==
    [][/\ (tick.pc = "get_conversation" /\ tick' # tick /\ lastOp'.info # "failed")
          => LET row == convs[plans[CurrentPlan].chat_id]
             IN (\/ ~settings.proactive.enabled
                 \/ (row.chat_type = "group" /\ ~settings.groups.allow_proactive))
                => tick'.pc = "cancel_disabled"
       /\ (tick.pc = "cancel_disabled" /\ tick' # tick)
          => /\ lastOp'.op = "mark_plan_canceled"
             /\ plans' = IF lastOp'.info # "failed"
                         THEN [plans EXCEPT ![CurrentPlan].status = "canceled"]
                         ELSE plans
             /\ convs' = convs
             /\ tick' = NextPlan(tick)]_vars

\* C24 witness: the loop has just canceled the pending plan of a chat that
\* had become a group chat after the plan was stored.
C24_Witness ==
    /\ lastOp.op = "mark_plan_canceled"
    /\ lastOp.action = "cancel_disabled"
    /\ lastOp.info = "pending"
    /\ plans[lastOp.plan_id].status = "canceled"
    /\ convs[plans[lastOp.plan_id].chat_id].chat_type = "group"

\* C25: after the execution loop has dispatched a plan's text (send_text has
\* returned for the plan), when the loop leaves the plan the plan's status is
\* sent, the last bot send of its conversation is the instant the tick read at
\* its start, and the stored daily counter is, for the local date the loop
\* read for this plan, one above the count that was compared against
\* max_per_day.
C25_DispatchedPlanSentStampedCounted ==
    [][(tick.dispatched /\ ~tick'.dispatched)
       => LET chat_id == plans[CurrentPlan].chat_id
          IN /\ plans'[CurrentPlan].status = "sent"
             /\ convs'[chat_id].last_bot_ts_utc = tick.now_utc
             /\ convs'[chat_id].daily_count = tick.daily_count + 1
             /\ convs'[chat_id].daily_date = tick.current_date]_vars

\* C26: when the execution loop puts off a due plan, for a quiet block or for
\* the cooldown, its only step for the plan is reschedule_plan (which, when it
\* raises, leaves the plan as it is); when it returns, nothing of the
\* plan but send_at changes (a pending plan stays pending), no conversation
\* changes and nothing is sent; the new send_at is, for a quiet block, the
\* first instant after the time the loop read that lies outside the quiet
\* blocks, and for the cooldown the last bot send the loop read plus
\* cooldown_hours; it is strictly later than the instant of the tick, so the
\* plan is in no batch of due plans read before the new send_at.
C26_DeferredPlanRescheduledLater ==
    [][(tick.pc \in {"reschedule_quiet", "reschedule_cooldown"} /\ tick' # tick)
       => IF lastOp'.info = "failed"
          THEN /\ lastOp'.op = "reschedule_plan"
               /\ plans' = plans
               /\ convs' = convs
               /\ tick' = NextPlan(tick)
          ELSE
          LET new_send_at == plans'[CurrentPlan].send_at_utc
              read_at == tick.local_now_dt.utc
          IN /\ lastOp'.op = "reschedule_plan"
             /\ plans' = [plans EXCEPT ![CurrentPlan].send_at_utc = new_send_at]
             /\ convs' = convs
             /\ tick' = NextPlan(tick)
             /\ new_send_at > tick.now_utc
             /\ \A t \in {tick.now_utc, read_at, new_send_at - 1} :
                    \A k \in 1..Len(get_due_plans(plans', t, DueLimit)) :
                        get_due_plans(plans', t, DueLimit)[k] # CurrentPlan
             /\ tick.pc = "reschedule_quiet"
                => /\ ~QuietAt(new_send_at)
                   /\ \A h \in 0..24 : read_at + h * Hour < new_send_at
                                       => QuietAt(read_at + h * Hour)
             /\ tick.pc = "reschedule_cooldown"
                => /\ ~QuietAt(read_at)
                   /\ tick.conversation.last_bot_ts_utc # NoTs
                   /\ new_send_at = tick.conversation.last_bot_ts_utc
                                    + settings.proactive.cooldown_hours * Hour]_vars

\* The number of times the execution loop handed a text of the chat to the
\* connector on the local date `date`
Dispatches(P, chat_id, date) ==
    Cardinality({pk \in (DOMAIN P) \X (1..MaxTexts) :
                    /\ P[pk[1]].chat_id = chat_id
                    /\ pk[2] <= Len(P[pk[1]].texts)
                    /\ P[pk[1]].texts[pk[2]] = date})

\* The local dates of a run
Dates == {DateOf(local_now(StartClock + k * ClockStep)) : k \in 0..(MaxClockSteps + 1)}

\* C29: for each chat and each local calendar date, the number of proactive
\* messages the execution loop dispatched on that date never exceeds
\* proactive.max_per_day, in every interleaving of ticks with turns.
C29_DispatchesWithinDailyMax ==
    \A c \in Chats, d \in Dates :
        Dispatches(plans, c, d) <= settings.proactive.max_per_day

\* C30: the text of a plan is handed to connector.send_text with success at
\* most once over all ticks (a plan whose text went out is marked sent in the
\* same tick, also when add_message or the gif part raises afterwards, and is
\* not dispatched again).
C30_TextSentAtMostOnce ==
    \A p \in DOMAIN plans : Len(plans[p].texts) <= 1

\* C31: a plan becomes sent only in the step of mark_plan_sent of the tick
\* that is handling it, after connector.send_text has returned for that plan
\* in the same handling (so its text has gone out at least once); a plan is
\* never inserted as sent; and the stored daily count of a chat goes up only
\* in the step of update_daily_counter of a handling whose send_text has
\* returned for a plan of that chat.
C31_SentAndCountedOnlyAfterDispatch ==
    [][/\ \A p \in DOMAIN plans' :
            (plans'[p].status = "sent" /\ (p \in DOMAIN plans => plans[p].status # "sent"))
            => /\ p \in DOMAIN plans
               /\ tick.pc = "mark_plan_sent"
               /\ tick.due[tick.i] = p
               /\ tick.dispatched
               /\ Len(plans[p].texts) >= 1
               /\ lastOp'.op = "mark_plan_sent"
       /\ \A c \in DOMAIN convs :
            convs'[c].daily_count > convs[c].daily_count
            => /\ tick.pc = "update_daily_counter"
               /\ tick.dispatched
               /\ plans[tick.due[tick.i]].chat_id = c
               /\ Len(plans[tick.due[tick.i]].texts) >= 1
               /\ lastOp'.info = "dispatched"
      ]_vars

\* A tick has sent a plan's text, marked the plan sent and counted it
C31_Witness ==
    /\ lastOp.op = "update_daily_counter"
    /\ lastOp.info = "dispatched"
    /\ plans[lastOp.plan_id].status = "sent"
    /\ Len(plans[lastOp.plan_id].texts) = 1
    /\ convs[lastOp.chat_id].daily_count = 1

\* C32: the plan application of a turn of chat A (cancel_all_plans,
\* replace_plans with its cancel, insert and rollback, append_plans, or a
\* directive that is dropped) leaves every plan row of every other chat as it
\* was (status, send time and what has gone out), inserts rows of chat A
\* only, and leaves the conversation row of every other chat, with its daily
\* counter and last bot time, unchanged.
C32_PlanningTouchesOwnChatOnly ==
    [][\A w \in Workers :
          (/\ turn[w].pc \in {"apply_planning", "plan_write", "replace_insert"}
           /\ turn'[w].pc # turn[w].pc)
          => /\ Len(plans') >= Len(plans)
             /\ \A p \in DOMAIN plans :
                   plans[p].chat_id # turn[w].chat_id => plans'[p] = plans[p]
             /\ \A p \in DOMAIN plans' :
                   p > Len(plans) => plans'[p].chat_id = turn[w].chat_id
             /\ \A c \in Chats : c # turn[w].chat_id => convs'[c] = convs[c]]_vars

\* C32 witness: a replace_all of one chat has canceled and inserted its rows
\* while a plan of another chat is pending, and that plan is still pending
C32_Witness ==
    /\ lastOp.op = "replace_plans"
    /\ plans[lastOp.plan_id].chat_id = lastOp.chat_id
    /\ plans[lastOp.plan_id].status = "pending"
    /\ \E p \in DOMAIN plans :
          /\ plans[p].chat_id # lastOp.chat_id
          /\ plans[p].status = "pending"
          /\ convs[plans[p].chat_id].exists

\* C33: in every reachable state the stored daily_count of every conversation
\* is at least 0 and at most proactive.max_per_day; and every step that
\* changes a stored daily_count writes either 0 (the row of a new chat, or the
\* rollover of a turn or of the tick) or, in the update_daily_counter step of
\* a dispatch, one above the count that the tick had checked to be below the
\* maximum.
C33_DailyCountWithinMax ==
    /\ [](\A c \in Chats :
             /\ convs[c].daily_count >= 0
             /\ convs[c].daily_count <= settings.proactive.max_per_day)
    /\ [][\A c \in Chats :
             convs'[c].daily_count # convs[c].daily_count
             => \/ convs'[c].daily_count = 0
                \/ /\ tick.pc = "update_daily_counter"
                   /\ lastOp'.info = "dispatched"
                   /\ lastOp'.chat_id = c
                   /\ tick.daily_count >= 0
                   /\ tick.daily_count < settings.proactive.max_per_day
                   /\ convs'[c].daily_count = tick.daily_count + 1]_vars

\* C33 witness: a chat whose stored count stands at the maximum has its next
\* due plan stopped at the daily maximum by the tick
C33_Witness ==
    /\ tick.pc = "cancel_max"
    /\ settings.proactive.max_per_day >= 1
    /\ convs[plans[tick.due[tick.i]].chat_id].daily_count = settings.proactive.max_per_day
    /\ tick.daily_count = settings.proactive.max_per_day
    /\ \E p \in DOMAIN plans :
          /\ plans[p].chat_id = plans[tick.due[tick.i]].chat_id
          /\ plans[p].status = "sent"

----------------------------------------------------------------------------
(* Inputs of the policy functions *)

MaxBlocks == 2      \* longest free-form block list
MaxChain == 6       \* longest chain of adjacent one-hour blocks

\* Block bounds of the free-form lists, as parse_hhmm (time.fromisoformat)
\* gives them: HH:MM values, and HH:MM:SS values inside the minute 07:00
BoundTimes == {0, 7 * Hour, 7 * Hour + 30, 7 * Hour + 59, 12 * Hour, 22 * Hour}

Block(s, e) == [start |-> s, end |-> e]
AllBlocks == {Block(s, e) : s \in BoundTimes, e \in BoundTimes}

RECURSIVE ListsUpTo(_)
ListsUpTo(n) ==
    IF n = 0 THEN {<<>>}
    ELSE LET shorter == ListsUpTo(n - 1) IN
         shorter \cup {Append(l, b) : l \in {x \in shorter : Len(x) = n - 1},
                                      b \in AllBlocks}

\* k adjacent one-hour blocks from hour h on, in list order or reversed
Chain(h, k) == [i \in 1..k |-> Block(((h + i - 1) % 24) * Hour, ((h + i) % 24) * Hour)]
Reversed(l) == [i \in 1..Len(l) |-> l[Len(l) + 1 - i]]
ChainLists ==
    LET cs == {Chain(h, k) : h \in {1, 20}, k \in 1..MaxChain} IN
    cs \cup {Reversed(c) : c \in cs}

BlockLists == ListsUpTo(MaxBlocks) \cup ChainLists

\* Datetimes handed to the functions: wall-clock times of days 0 and 1,
\* written in the configured zone or in UTC; local_now is in the configured
\* zone
TimesOfDay == {0, Hour + 1800, 7 * Hour, 7 * Hour + 30, 12 * Hour - 1,
               20 * Hour + 30, 22 * Hour, 23 * Hour + 1800}
Offsets == {TzOffset, 0}
Candidates == {Dt(d * Day + t - off, off) : d \in 0..1, t \in TimesOfDay, off \in Offsets}
NowTimes == {Dt(t - TzOffset, TzOffset) :
                t \in {12 * Hour, 21 * Hour + 59 * 60 + 30, Day + 6 * Hour + 59 * 60,
                       Day + 6 * Hour + 59 * 60 + 15}}

PolicyInit ==
    /\ polIn \in [cand : Candidates, now : NowTimes, blocks : BlockLists]
    /\ polOut = NoCall
    /\ clock = StartClock
    /\ convs = [c \in Chats |-> NoConversation]
    /\ plans = << >>
    /\ lock = 0
    /\ txn = << >>
    /\ turn = [w \in Workers |-> IdleTurn]
    /\ tick = IdleTick
    /\ started = 0
    /\ lastOp = Op("init", 0, 0, {}, "")

\* sanitize_schedule_time on the inputs, and on its own output
CallSanitize ==
    /\ polOut = NoCall
    /\ LET out == sanitize_schedule_time(polIn.cand, polIn.now, polIn.blocks) IN
       polOut' = [op |-> "sanitize", out |-> out,
                  again |-> sanitize_schedule_time(out, polIn.now, polIn.blocks)]
    /\ UNCHANGED polIn
    /\ UNCHANGED sysVars

\* is_within_quiet_hours on the candidate
CallWithin ==
    /\ polOut = NoCall
    /\ polOut' = [op |-> "within",
                  out |-> is_within_quiet_hours(polIn.cand, polIn.blocks)]
    /\ UNCHANGED polIn
    /\ UNCHANGED sysVars

\* next_allowed_time on the candidate
CallNextAllowed ==
    /\ polOut = NoCall
    /\ LET r == NextAllowedLoop(polIn.cand, polIn.blocks, MaxPasses, 0) IN
       polOut' = [op |-> "next_allowed", out |-> next_allowed_time(polIn.cand, polIn.blocks),
                  moves |-> r.moves]
    /\ UNCHANGED polIn
    /\ UNCHANGED sysVars

PolicyNext == CallSanitize \/ CallWithin \/ CallNextAllowed

SpecPolicy == PolicyInit /\ [][PolicyNext]_vars

----------------------------------------------------------------------------
(* Properties of the policy functions (checked under SpecPolicy) *)

\* Block i is the first match of some time of day.  The times of day at which
\* the first match changes are midnight and the bounds of the blocks.
MovesSomeCandidate(blocks, i) ==
    \E p \in {0} \cup {blocks[j].start : j \in 1..Len(blocks)}
                 \cup {blocks[j].end : j \in 1..Len(blocks)} :
        FirstMatch(p, blocks, 1) = i

\* next_allowed_time ends outside every block, whatever the candidate.  The
\* first pass leaves a candidate that is inside a block at the hour and minute
\* of the end of its first match, seconds dropped; the remaining passes go on
\* from there.
SurelyConverges(blocks) ==
    \A i \in 1..Len(blocks) :
        MovesSomeCandidate(blocks, i) =>
            LET moved == ReplaceHourMinute(Dt(0, 0), blocks[i].end) IN
            ~is_within_quiet_hours(
                NextAllowedLoop(moved, blocks, MaxPasses - 1, 0).candidate, blocks)

\* The time of day of a datetime read in the configured zone, the zone of
\* local_now
LocalTimeOfDay(dt) == TimeOfDay(astimezone(dt, TzOffset))

InsideQuietLocally(dt, blocks) ==
    \E i \in 1..Len(blocks) : BlockContains(LocalTimeOfDay(dt), blocks[i])

\* C8: for every candidate, localNow and block list the result of
\* sanitize_schedule_time is at least localNow + 60 s, and its local time of
\* day is inside no quiet block.  (Stated here for the block lists on which
\* next_allowed_time ends outside every block, whatever the candidate.)
C8_SanitizeOutsideQuietLocally ==
    (polOut.op = "sanitize" /\ SurelyConverges(polIn.blocks)) =>
        /\ polOut.out.utc >= polIn.now.utc + MIN_SCHEDULE_DELAY
        /\ ~InsideQuietLocally(polOut.out, polIn.blocks)

\* C9: sanitize_schedule_time is idempotent for a fixed localNow and block
\* list: applied to its own output it returns that output, for every
\* candidate.  (Stated here for the block lists on which next_allowed_time
\* ends outside every block, whatever the candidate.)
C9_SanitizeIdempotentWhenConverging ==
    (polOut.op = "sanitize" /\ SurelyConverges(polIn.blocks)) =>
        polOut.again = polOut.out

\* C10: is_within_quiet_hours(t, blocks) is true iff some block contains the
\* time of day of t: start <= t < end for a block with start <= end, and
\* t >= start or t < end for a block with start > end.
C10_WithinQuietHoursIff ==
    polOut.op = "within" =>
        (polOut.out <=>
            \E i \in 1..Len(polIn.blocks) :
                LET b == polIn.blocks[i]
                    t == Wall(polIn.cand) % Day IN
                \/ (b.start <= b.end /\ b.start <= t /\ t < b.end)
                \/ (b.start > b.end /\ (t >= b.start \/ t < b.end)))

\* C10 witness: a time of day equal to the end of a same-day block and to the
\* start of no block, found outside the quiet hours.
C10_Witness ==
    /\ polOut.op = "within"
    /\ polOut.out = FALSE
    /\ \E i \in 1..Len(polIn.blocks) :
          /\ polIn.blocks[i].start < polIn.blocks[i].end
          /\ polIn.blocks[i].end = Wall(polIn.cand) % Day

\* C20: for a single quiet block that wraps midnight (start > end, as
\* 22:00-07:00) and a candidate that already keeps the minimum delay,
\* sanitize_schedule_time gives `end` on the following calendar day when the
\* time of day of the candidate is >= start, and `end` on the same calendar
\* day when it is < end (23:00 becomes 07:00 of the next day).  Time of day
\* and calendar day are those of the candidate as written, in its own zone.
C20_WrappingBlockAdvance ==
    (/\ polOut.op = "sanitize"
     /\ Len(polIn.blocks) = 1
     /\ polIn.blocks[1].start > polIn.blocks[1].end
     /\ polIn.cand.utc >= polIn.now.utc + MIN_SCHEDULE_DELAY)
    => LET block == polIn.blocks[1]
           cand == polIn.cand
       IN /\ TimeOfDay(cand) >= block.start
             => /\ Wall(polOut.out) = (DateOf(cand) + 1) * Day + block.end
                /\ polOut.out.off = cand.off
          /\ TimeOfDay(cand) < block.end
             => /\ Wall(polOut.out) = DateOf(cand) * Day + block.end
                /\ polOut.out.off = cand.off

\* C27: next_allowed_time ends after at most 5 passes over the block list
\* that moved the candidate; a datetime whose time of day is inside no block
\* is returned as it is, and every other datetime is moved to a strictly later
\* instant of the same zone; for every block list: overlapping, adjacent,
\* unsorted, empty, and lists that leave no time of day free.
C27_NextAllowedTimeBoundedAndForward ==
    polOut.op = "next_allowed" =>
        LET t == Wall(polIn.cand) % Day
            inside == \E i \in 1..Len(polIn.blocks) :
                          LET b == polIn.blocks[i] IN
                          IF b.start <= b.end THEN b.start <= t /\ t < b.end
                          ELSE t >= b.start \/ t < b.end
        IN /\ polOut.moves \in 0..5
           /\ polOut.out.off = polIn.cand.off
           /\ ~inside => (polOut.out = polIn.cand /\ polOut.moves = 0)
           /\ inside => (polOut.out.utc > polIn.cand.utc /\ polOut.moves >= 1)

----------------------------------------------------------------------------
(* Calls of add_plan, get_due_plans and should_schedule_proactive on drawn
   inputs (checked under SpecCalls): the store is `plans`, the moment of the
   call is `clock`, the other arguments are in polIn and the result is in
   polOut *)

MaxStore == 3       \* most rows of the plans table

\* Rows of the plans table: any status, send times around the moments of the
\* calls
StoreTimes == {StartClock - Hour, StartClock, StartClock + Hour}
StoreRows == [chat_id : {1}, status : {"pending", "sent", "canceled"},
              send_at_utc : StoreTimes, via : {"append"},
               texts : {<< >>}]

RECURSIVE StoresUpTo(_)
StoresUpTo(n) ==
    IF n = 0 THEN {<<>>}
    ELSE LET shorter == StoresUpTo(n - 1) IN
         shorter \cup {Append(l, r) : l \in {x \in shorter : Len(x) = n - 1},
                                      r \in StoreRows}

Limits == {0, 1, 2, DueLimit}
ChatTypes == {"direct", "group", "channel"}

CallsInit ==
    /\ plans \in StoresUpTo(MaxStore)
    /\ clock \in {StartClock - Hour, StartClock}
    /\ polIn \in [limit : Limits, enabled : BOOLEAN, allow_proactive : BOOLEAN,
                  chat_type : ChatTypes]
    /\ polOut = NoCall
    /\ convs = [c \in Chats |-> NoConversation]
    /\ lock = 0
    /\ txn = << >>
    /\ turn = [w \in Workers |-> IdleTurn]
    /\ tick = IdleTick
    /\ started = 0
    /\ lastOp = Op("init", 0, 0, {}, "")

\* get_due_plans(now_utc, limit): a SELECT under the lock of the store
CallGetDuePlans ==
    /\ polOut = NoCall
    /\ polOut' = [op |-> "get_due_plans",
                  out |-> get_due_plans(plans, clock, polIn.limit)]
    /\ UNCHANGED polIn
    /\ UNCHANGED sysVars

\* The settings with the two switches that should_schedule_proactive reads
SettingsWith(enabled, allow_proactive) ==
    [settings EXCEPT !.proactive.enabled = enabled,
                     !.groups.allow_proactive = allow_proactive]

\* should_schedule_proactive(settings, chat_type)
CallShouldScheduleProactive ==
    /\ polOut = NoCall
    /\ polOut' = [op |-> "should_schedule_proactive",
                  out |-> should_schedule_proactive(
                              SettingsWith(polIn.enabled, polIn.allow_proactive),
                              polIn.chat_type)]
    /\ UNCHANGED polIn
    /\ UNCHANGED sysVars

\* add_plan(chat_id, send_at_utc, ...) called on the store, before the call
\* whose result is looked at: a pending row is appended, or the INSERT raises
\* and the store stays as it is
CallAddPlan ==
    /\ polOut = NoCall
    /\ Len(plans) < MaxStore
    /\ \E ok \in BOOLEAN, send_at_utc \in StoreTimes :
         /\ plans' = IF ok THEN add_plan(plans, 1, send_at_utc) ELSE plans
         /\ lastOp' = Op("add_plan", 1, IF ok THEN Len(plans) + 1 ELSE 0, {},
                         IF ok THEN "" ELSE "failed")
    /\ UNCHANGED <<clock, convs, lock, txn, turn, tick, started, polIn, polOut>>

CallsNext == CallAddPlan \/ CallGetDuePlans \/ CallShouldScheduleProactive

SpecCalls == CallsInit /\ [][CallsNext]_vars

\* The pending plans of store P whose send time is not after now_utc
DueSet(P, now_utc) ==
    {i \in DOMAIN P : P[i].status = "pending" /\ P[i].send_at_utc <= now_utc}

Min(a, b) == IF a <= b THEN a ELSE b

\* C18: get_due_plans(now_utc, limit) returns pending plans with
\* send_at <= now_utc only, each once, in ascending order of send_at, all of
\* them when there are at most `limit` and else the `limit` first ones (no
\* plan left out is due before a returned one); it never returns a sent or
\* canceled plan nor a plan with send_at > now_utc, and it leaves the store as
\* it is.
C18_GetDuePlans ==
    [][polOut'.op = "get_due_plans" =>
          LET out == polOut'.out
              returned == {out[k] : k \in 1..Len(out)}
              due == DueSet(plans, clock)
          IN /\ plans' = plans
             /\ returned \subseteq due
             /\ Cardinality(returned) = Len(out)
             /\ Len(out) = Min(polIn.limit, Cardinality(due))
             /\ AscendingSendAt(plans, out)
             /\ \A i \in due \ returned, j \in returned :
                   plans[j].send_at_utc <= plans[i].send_at_utc
             /\ \A j \in returned :
                   /\ plans[j].status \notin Terminal
                   /\ plans[j].send_at_utc <= clock]_vars

\* C18 witness: a call that was cut at its limit, on a store that also holds
\* a plan that is not due (sent, canceled or of a later send time) and a
\* pending plan whose send time is the moment of the call.
C18_Witness ==
    /\ polOut.op = "get_due_plans"
    /\ polIn.limit >= 1
    /\ Len(polOut.out) = polIn.limit
    /\ Cardinality(DueSet(plans, clock)) > polIn.limit
    /\ Cardinality(DueSet(plans, clock)) < Len(plans)
    /\ \E i \in DueSet(plans, clock) : plans[i].send_at_utc = clock

\* C19: should_schedule_proactive(settings, chat_type) is false whenever
\* proactive.enabled is false, false for chat_type = "group" when
\* groups.allow_proactive is false, and true in every other case.
C19_ShouldScheduleProactive ==
    polOut.op = "should_schedule_proactive" =>
        /\ ~polIn.enabled => polOut.out = FALSE
        /\ (polIn.chat_type = "group" /\ ~polIn.allow_proactive) => polOut.out = FALSE
        /\ (polIn.enabled /\ ~(polIn.chat_type = "group" /\ ~polIn.allow_proactive))
           => polOut.out = TRUE

\* C19 witness: proactive messages are enabled, but not for groups, and the
\* call for a group chat said no.
C19_Witness ==
    /\ polOut.op = "should_schedule_proactive"
    /\ polIn.enabled
    /\ ~polIn.allow_proactive
    /\ polIn.chat_type = "group"
    /\ polOut.out = FALSE

----------------------------------------------------------------------------
(* The process started on the store of the day before (checked under
   SpecRestart): the conversations and plans tables are kept in the database
   file, so the first chat has a conversation whose daily counter is of
   yesterday and a pending plan that is due now.  The connector and the store
   are in order: no call raises.  One inbound event less than in the other
   runs is accepted. *)

\* The conversation of a chat the bot wrote to a day ago
YesterdayRow(daily_count) ==
    [NewConversation("direct") EXCEPT !.last_bot_ts_utc = StartClock - Day,
                                      !.daily_count = daily_count,
                                      !.daily_date = DateOf(local_now(StartClock)) - 1]

RestartInit ==
    /\ clock = StartClock
    /\ convs \in {[c \in Chats |-> IF c = 1 THEN YesterdayRow(n) ELSE NoConversation] :
                     n \in 0..settings.proactive.max_per_day}
    /\ plans = insert_plan(<< >>, 1, StartClock, "append")
    /\ lock = 0
    /\ txn = << >>
    /\ turn = [w \in Workers |-> IdleTurn]
    /\ tick = IdleTick
    /\ started = MaxTurns - 1
    /\ lastOp = Op("init", 0, 0, {}, "")
    /\ polIn = NoPolicyIn
    /\ polOut = NoCall

\* No call of the connector or of the store raises
NothingRaises == lastOp'.info # "failed"

RestartNext == Next /\ NothingRaises

SpecRestart == RestartInit /\ [][RestartNext]_vars

----------------------------------------------------------------------------
(* The process configured with a quiet block whose end is written with
   seconds, started on the store of the evening before (checked under
   SpecSeconds).  parse_hhmm is time.fromisoformat, which reads "07:00:59" as
   well as "07:00", and is_within_quiet_hours compares the whole time of day
   with it.  The clock is observed thirty seconds after a full minute, at
   01:00:30 local time and then every cooldown period later (07:00:30, inside
   the block, and 13:00:30).  The first chat has a conversation and a pending
   plan from the turn that replied to it at 22:00:30 of the evening before;
   that turn moved the plan's send time, the end of the cooldown at 04:00:30,
   to 07:00:00.  One inbound event less than in the other runs is accepted. *)

\* quiet_hours: [{start: "22:00", end: "07:00:59"}]
SecondsQuietHours == << [start |-> 22 * Hour, end |-> 7 * Hour + 59] >>

\* 01:00:30 local time of day 1
SecondsStart == to_utc_ts(Dt(Day + Hour + 30 - TzOffset, TzOffset))

\* The instant of the reply of the evening before: 22:00:30 of day 0
SecondsLastReply == SecondsStart - 3 * Hour

\* The conversation of the chat the bot replied to on the evening before:
\* the turn found nothing counted for its day (with a count at the maximum
\* _apply_planning stores no plan)
EveningRow ==
    [NewConversation("direct") EXCEPT
        !.last_bot_ts_utc = SecondsLastReply,
        !.daily_count = 0,
        !.daily_date = DateOf(local_now(SecondsLastReply))]

\* The send time that _apply_planning gave the plan of that turn
EveningPlanSendAt ==
    to_utc_ts(sanitize_schedule_time(
                  Dt(SecondsLastReply + settings.proactive.cooldown_hours * Hour, TzOffset),
                  local_now(SecondsLastReply), SecondsQuietHours))

SecondsInit ==
    /\ clock = SecondsStart
    /\ convs = [c \in Chats |-> IF c = 1 THEN EveningRow ELSE NoConversation]
    /\ plans = insert_plan(<< >>, 1, EveningPlanSendAt, "append")
    /\ lock = 0
    /\ txn = << >>
    /\ turn = [w \in Workers |-> IdleTurn]
    /\ tick = IdleTick
    /\ started = MaxTurns - 1
    /\ lastOp = Op("init", 0, 0, {}, "")
    /\ polIn = [quiet_hours |-> SecondsQuietHours]
    /\ polOut = NoCall

SecondsAdvance ==
    /\ clock < SecondsStart + MaxClockSteps * ClockStep
    /\ clock' = clock + ClockStep
    /\ lastOp' = Op("advance", 0, 0, {}, "")
    /\ UNCHANGED <<convs, plans, lock, txn, turn, tick, started, polIn, polOut>>

SecondsNext ==
    \/ \E w \in Workers : TurnNext(w)
    \/ TickNext
    \/ SecondsAdvance

SpecSeconds == SecondsInit /\ [][SecondsNext]_vars

----------------------------------------------------------------------------
(* The execution loop on a backlog of due plans, under fair ticking (checked
   under SpecBacklog).  The store holds more due pending plans than one batch
   takes; the plans at its head are of chats the connector cannot reach, so
   that connector.send_text raises for them at every attempt.  Every plan was
   stored by a turn that had replied to its chat before.  The interval job
   runs again and again while the clock goes on, between its runs and inside
   them, from local noon into the quiet hours of config.yaml; the process runs
   with these quiet hours or with none. *)

\* The chats of the backlog: one per plan at the head, and one behind them
BacklogChats == 1..(DueLimit + 1)

\* config.py:36  scheduler_interval_seconds: int = 20
SchedulerInterval == 20

\* The instants the clock is read at: local noon and one interval later, 22:00
\* local time and one interval later.  At the last of them the clock stands
\* for every later instant.
BacklogClocks ==
    {StartClock, StartClock + SchedulerInterval,
     StartClock + 10 * Hour, StartClock + 10 * Hour + SchedulerInterval}

\* The quiet hours of the run: none (the default of Settings), or those of
\* config.yaml
BacklogQuietHours == {<< >>, settings.quiet_hours}

\* A pending plan of the chat, due since an hour before the start of the run;
\* the plans of the backlog are in ascending order of send time
BacklogPlan(chat_id, k) ==
    [chat_id |-> chat_id, send_at_utc |-> StartClock - Hour + k,
     status |-> "pending", via |-> "append", texts |-> << >>]

\* n plans of n chats at the head, then the plan of chat n + 1
BacklogStore(n) == [k \in 1..(n + 1) |-> BacklogPlan(k, k)]

\* The conversation of a chat at the head.  Its plan was stored by the turn
\* that replied to the chat eight hours before the run (main.py: the reply is
\* recorded at line 216, the plan is written at line 229), on the same local
\* date; nothing was sent to it since.
HeadRow(now_utc) ==
    [NewConversation("direct") EXCEPT
        !.last_bot_ts_utc = now_utc - 8 * Hour,
        !.daily_count = 0,
        !.daily_date = DateOf(local_now(now_utc - 8 * Hour))]

\* The conversations of the chat behind the head: as those at the head; turned
\* into a group chat by a later event (ensure_conversation, lines 149-153);
\* with a later reply of the bot, an hour before the run, that left the plan
\* as it was; or with the reply that stored the plan on the evening before
BacklogRows(now_utc) ==
    {HeadRow(now_utc),
     [HeadRow(now_utc) EXCEPT !.chat_type = "group"],
     [HeadRow(now_utc) EXCEPT !.last_bot_ts_utc = now_utc - Hour],
     [HeadRow(now_utc) EXCEPT !.last_bot_ts_utc = now_utc - 14 * Hour,
                              !.daily_date = DateOf(local_now(now_utc - 14 * Hour))]}

\* A full batch of plans at the head, with or without quiet hours, or one
\* plan less at the head, so that the plan of the chat behind is in the first
\* batch, with that chat in each of its conditions
BacklogInit ==
    /\ clock = StartClock
    /\ \E n \in {DueLimit - 1, DueLimit} :
         /\ plans = BacklogStore(n)
         /\ convs \in {[c \in BacklogChats |-> IF c = n + 1 THEN row ELSE HeadRow(clock)] :
                          row \in IF n < DueLimit THEN BacklogRows(clock)
                                  ELSE {HeadRow(clock)}}
         /\ polIn \in [unreachable : {1..n},
                       quiet_hours : IF n < DueLimit THEN {<< >>} ELSE BacklogQuietHours]
    /\ polOut = NoCall
    /\ lock = 0
    /\ txn = << >>
    /\ turn = [w \in Workers |-> IdleTurn]
    /\ tick = IdleTick
    /\ started = 0
    /\ lastOp = Op("init", 0, 0, {}, "")

\* connector.send_text raises for a chat that cannot be reached
UnreachableRaises ==
    plans[lastOp'.plan_id].chat_id \in polIn.unreachable => lastOp'.info = "failed"

\* The store is in order: none of its calls raises
StoreAnswers == lastOp'.info # "failed"

\* One step of the scheduler job, process_due_plans
BacklogTick ==
    \/ TickStart
    \/ (TickGetDuePlans /\ StoreAnswers)
    \/ (TickGetConversation /\ StoreAnswers)
    \/ TickLocalNow
    \/ (TickRollover /\ StoreAnswers)
    \/ (TickCancel /\ StoreAnswers)
    \/ (TickRescheduleQuiet /\ StoreAnswers)
    \/ (TickRescheduleCooldown /\ StoreAnswers)
    \/ (TickSendText /\ UnreachableRaises)
    \/ (TickAddMessage /\ StoreAnswers)
    \/ TickSendGif
    \/ (TickMarkPlanSent /\ StoreAnswers)
    \/ (TickUpdateLastBotTs /\ StoreAnswers)
    \/ (TickUpdateDailyCounter /\ StoreAnswers)

\* Time passes, between two runs of the job and inside a run (the job reads
\* the clock once per run, scheduler.py 37, and once per plan, line 67): the
\* clock goes on to a later instant of BacklogClocks.
BacklogAdvance ==
    /\ \E later \in BacklogClocks :
         /\ later > clock
         /\ clock' = later
    /\ lastOp' = Op("advance", 0, 0, {}, "")
    /\ UNCHANGED <<convs, plans, lock, txn, turn, tick, started, polIn, polOut>>

BacklogNext == BacklogTick \/ BacklogAdvance

\* The interval job of the scheduler fires again and again, a running job
\* goes on to its end, and time does not stand still.
SpecBacklog ==
    BacklogInit /\ [][BacklogNext]_vars
    /\ WF_vars(BacklogTick) /\ WF_vars(BacklogAdvance)

\* _handle_plan is at work on plan p
Examined(p) == tick.pc \notin {"idle", "get_due_plans"} /\ tick.due[tick.i] = p

DuePending(p) ==
    /\ p \in DOMAIN plans
    /\ plans[p].status = "pending"
    /\ plans[p].send_at_utc <= clock

\* C28: under fair, repeated ticking every pending plan whose send time has
\* passed is eventually examined by _handle_plan, also when other due plans
\* keep failing and stay pending at the head of the batch, which is ordered by
\* send time and cut at 50 plans.  (Stated of the plans at three places of
\* the backlog: the first, the last of the batch and the first behind it.)
C28_DuePendingPlanEventuallyExamined ==
    \A p \in {1, DueLimit, DueLimit + 1} : [](DuePending(p) => <>Examined(p))

====
